---- MODULE Spec2Model ----
(***************************************************************************)
(* Model of the Unicode PDF generator of src/main.py: the TrueType reader  *)
(* TTFFont (tables head, hhea, hmtx, cmap format 4) and the compositor and *)
(* serializer SimplePDFGenerator.                                          *)
(*                                                                         *)
(* Bytes are modelled as they are: the font file is a sequence of bytes    *)
(* 0..255 and every struct.unpack of the parser is a read of that          *)
(* sequence.  The output buffer is the sequence of the chunks handed to    *)
(* write(), each with the number of bytes it holds, so that buffer.tell()  *)
(* is the sum of the bytes written so far.  Widths are kept as exact       *)
(* rationals with denominator units_per_em (the source uses floats, which  *)
(* are exact when units_per_em is a power of two, as in DejaVuSans).       *)
(***************************************************************************)
EXTENDS Integers, Sequences, FiniteSets, TLC

VARIABLES
    fontFile,   \* the bytes of the file at font_path
    gens,       \* build id -> SimplePDFGenerator object
    log,        \* build id -> the calls made on it so far, in order
    probe       \* result of the last get_gid / get_width query

vars == <<fontFile, gens, log, probe>>

----------------------------------------------------------------------------
(* Bytes *)

Min(a, b) == IF a < b THEN a ELSE b
Max(a, b) == IF a > b THEN a ELSE b

Zeros(n) == [i \in 1..n |-> 0]
B16(n) == <<n \div 256, n % 256>>
B16s(v) == B16(IF v < 0 THEN v + 65536 ELSE v)
B32(n) == <<0, 0>> \o B16(n)

\* struct.unpack('>H', data[off:off+2]) and '>h'
U16(data, off) == data[off + 1] * 256 + data[off + 2]
S16(data, off) == LET v == U16(data, off) IN IF v >= 32768 THEN v - 65536 ELSE v
\* '>I' on the small files of the model: the two high bytes weigh 2^16 and 2^24
U32(data, off) ==
    data[off + 1] * 16777216 + data[off + 2] * 65536 + U16(data, off + 2)

TagHead == <<104, 101, 97, 100>>
TagHhea == <<104, 104, 101, 97>>
TagHmtx == <<104, 109, 116, 120>>
TagCmap == <<99, 109, 97, 112>>

----------------------------------------------------------------------------
(* Font files given to the reader.  A file is laid out as the reader       *)
(* expects it: the 12-byte sfnt header, one 16-byte directory record per   *)
(* table, then the tables.  A description fp names the tables in file      *)
(* order, the header's table count, the fields of head and hhea, the       *)
(* advance widths stored in hmtx, the cmap record and subtable, and the    *)
(* number of bytes left after truncation.                                  *)

\* ss[lo] \o ... \o ss[hi], by halves
RECURSIVE ConcatRange(_, _, _)
ConcatRange(ss, lo, hi) ==
    IF lo > hi THEN <<>>
    ELSE IF lo = hi THEN ss[lo]
    ELSE ConcatRange(ss, lo, (lo + hi) \div 2)
            \o ConcatRange(ss, (lo + hi) \div 2 + 1, hi)

Concat(ss) == ConcatRange(ss, 1, Len(ss))

TagOf(name) ==
    CASE name = "head" -> TagHead
      [] name = "hhea" -> TagHhea
      [] name = "hmtx" -> TagHmtx
      [] name = "cmap" -> TagCmap
      [] OTHER -> <<111, 116, 104, 114>>

HeadBytes(fp) ==
    Zeros(18) \o B16(fp.upem) \o Zeros(16)
        \o B16s(fp.bbox[1]) \o B16s(fp.bbox[2]) \o B16s(fp.bbox[3]) \o B16s(fp.bbox[4])
        \o Zeros(10)

HheaBytes(fp) ==
    Zeros(4) \o B16s(fp.ascent) \o B16s(fp.descent) \o Zeros(26) \o B16(fp.nm)

HmtxBytes(fp) == Concat([i \in 1..Len(fp.aw) |-> B16(fp.aw[i]) \o B16(0)])

RECURSIVE SumLen(_, _)
SumLen(ss, k) == IF k = 0 THEN 0 ELSE Len(ss[k]) + SumLen(ss, k - 1)

\* The format-4 subtable of fp.cm: header, endCode, pad, startCode, idDelta,
\* idRangeOffset, glyphIdArray.
SubtableBytes(cm) ==
    LET n == Len(cm.segs)
    IN B16(cm.fmt) \o B16(cm.len) \o B16(0) \o B16(2 * n) \o Zeros(6)
        \o Concat([i \in 1..n |-> B16(cm.segs[i].e)]) \o B16(0)
        \o Concat([i \in 1..n |-> B16(cm.segs[i].s)])
        \o Concat([i \in 1..n |-> B16s(cm.segs[i].d)])
        \o Concat([i \in 1..n |-> B16(cm.segs[i].ro)])
        \o Concat([i \in 1..Len(cm.gia) |-> B16(cm.gia[i])])

\* The cmap table: version, numTables, one encoding record (platformID,
\* encodingID, offset) per subtable of fp.pre, fp.cm, fp.post in this order,
\* then the subtables.
CmapBytes(fp) ==
    LET cms == fp.pre \o <<fp.cm>> \o fp.post
        n == Len(cms)
        sub == [k \in 1..n |-> SubtableBytes(cms[k])]
    IN B16(0) \o B16(n)
        \o Concat([k \in 1..n |->
                     B16(cms[k].plat) \o B16(cms[k].enc)
                         \o B32(4 + 8 * n + SumLen(sub, k - 1))])
        \o Concat(sub)

TableBytes(name, fp) ==
    CASE name = "head" -> HeadBytes(fp)
      [] name = "hhea" -> HheaBytes(fp)
      [] name = "hmtx" -> HmtxBytes(fp)
      [] name = "cmap" -> CmapBytes(fp)
      [] OTHER -> Zeros(4)

FontBytes(fp) ==
    LET n == Len(fp.tabs)
        tb == [k \in 1..n |-> TableBytes(fp.tabs[k], fp)]
        base == 12 + 16 * n
        dir == Concat([k \in 1..n |->
                  TagOf(fp.tabs[k]) \o B32(0) \o B32(base + SumLen(tb, k - 1))
                      \o B32(Len(tb[k]))])
        all == <<0, 1, 0, 0>> \o B16(fp.ntab) \o Zeros(6) \o dir \o Concat(tb)
    IN SubSeq(all, 1, Min(fp.cut, Len(all)))

----------------------------------------------------------------------------
(* TTFFont: the reader.  A parse is a record p holding the fields of the   *)
(* object under construction, ok (FALSE once a struct.unpack was handed    *)
(* too few bytes and raised), and reads, the byte ranges read so far, each *)
(* <<lo, hi, tlo, thi>>: bytes lo..hi-1 of the file, read as part of the    *)
(* table (or subtable) that occupies bytes tlo..thi-1.  computed is not a  *)
(* field of the object: it lists, in the order of the format-4 loops, each *)
(* <<char_code, gid>> the parser computed, the zero gids included.         *)

DefaultUnitsPerEm == 1000
DefaultWidth == 1000

\* TTFFont.__init__ up to the call of _parse
NewFont(data) ==
    [ok |-> TRUE, data |-> data, tables |-> <<>>,
     units_per_em |-> DefaultUnitsPerEm, ascent |-> 0, descent |-> 0,
     cap_height |-> 0, bbox |-> <<0, 0, 0, 0>>, advance_widths |-> <<>>,
     cmap |-> <<>>, gid_to_unicode |-> <<>>, num_metrics |-> 0, reads |-> {},
     computed |-> <<>>]

\* struct.unpack on data[lo:lo+n]: the slice is short, and unpack raises,
\* exactly when the file ends before lo+n.
Read(p, lo, n, tlo, thi) ==
    [p EXCEPT !.reads = @ \cup {<<lo, lo + n, tlo, thi>>},
              !.ok = lo + n <= Len(p.data)]

\* n successive reads of w bytes at base, base+w, ...: stops at the first
\* that raises.
ReadArr(p, base, w, n, tlo, thi) ==
    LET room == IF Len(p.data) > base THEN (Len(p.data) - base) \div w ELSE 0
        fit == Min(n, room)
    IN [p EXCEPT !.reads = @ \cup {<<base + w * i, base + w * i + w, tlo, thi>> :
                                        i \in 0..Min(n - 1, fit)},
                 !.ok = fit = n]

Has(f, x) == x \in DOMAIN f

\* _parse, the offset table: tag -> (offset, length), a later record of the
\* same tag replacing an earlier one.
ParseDirectory(p) ==
    LET d == p.data
        p1 == Read(p, 4, 2, 0, Len(d))
    IN IF ~p1.ok THEN p1
       ELSE LET num_tables == U16(d, 4)
                p2 == ReadArr(p1, 12, 16, num_tables, 0, Len(d))
                tag(k) == SubSeq(d, 12 + 16 * k + 1, 12 + 16 * k + 4)
                last(t) == CHOOSE k \in 0..(num_tables - 1) :
                              /\ tag(k) = t
                              /\ \A j \in (k + 1)..(num_tables - 1) : tag(j) # t
            IN IF ~p2.ok THEN p2
               ELSE [p2 EXCEPT !.tables =
                        [t \in {tag(k) : k \in 0..(num_tables - 1)} |->
                            <<U32(d, 12 + 16 * last(t) + 8),
                              U32(d, 12 + 16 * last(t) + 12)>>]]

\* _parse_head that raises when the directory has no head table
ParseHeadRequired(p) ==
    IF ~p.ok THEN p
    ELSE IF ~Has(p.tables, TagHead) THEN [p EXCEPT !.ok = FALSE]
    ELSE LET off == p.tables[TagHead][1]
             end == off + p.tables[TagHead][2]
             p1 == Read(p, off + 18, 2, off, end)
         IN IF ~p1.ok THEN p1
            ELSE LET p2 == Read([p1 EXCEPT !.units_per_em = U16(p.data, off + 18)],
                                off + 36, 8, off, end)
                 IN IF ~p2.ok THEN p2
                    ELSE [p2 EXCEPT !.bbox =
                            <<S16(p.data, off + 36), S16(p.data, off + 38),
                              S16(p.data, off + 40), S16(p.data, off + 42)>>]

ParseHead(p) ==
    IF ~p.ok \/ ~Has(p.tables, TagHead) THEN p
    ELSE LET off == p.tables[TagHead][1]
             end == off + p.tables[TagHead][2]
             p1 == Read(p, off + 18, 2, off, end)
         IN IF ~p1.ok THEN p1
            ELSE LET p2 == Read([p1 EXCEPT !.units_per_em = U16(p.data, off + 18)],
                                off + 36, 8, off, end)
                 IN IF ~p2.ok THEN p2
                    ELSE [p2 EXCEPT !.bbox =
                            <<S16(p.data, off + 36), S16(p.data, off + 38),
                              S16(p.data, off + 40), S16(p.data, off + 42)>>]

ParseHhea(p) ==
    IF ~p.ok \/ ~Has(p.tables, TagHhea) THEN p
    ELSE LET off == p.tables[TagHhea][1]
             end == off + p.tables[TagHhea][2]
             p1 == Read(p, off + 4, 4, off, end)
         IN IF ~p1.ok THEN p1
            ELSE LET p2 == Read([p1 EXCEPT !.ascent = S16(p.data, off + 4),
                                           !.descent = S16(p.data, off + 6)],
                                off + 34, 2, off, end)
                 IN IF ~p2.ok THEN p2
                    ELSE [p2 EXCEPT !.num_metrics = U16(p.data, off + 34)]

ParseHmtx(p) ==
    IF ~p.ok \/ ~Has(p.tables, TagHmtx) THEN p
    ELSE LET off == p.tables[TagHmtx][1]
             end == off + p.tables[TagHmtx][2]
             p1 == ReadArr(p, off, 4, p.num_metrics, off, end)
         IN IF ~p1.ok THEN p1
            ELSE [p1 EXCEPT !.advance_widths =
                    [i \in 1..p.num_metrics |-> U16(p.data, off + (i - 1) * 4)]]

\* The four parallel arrays of a format-4 subtable at `offset`, and where the
\* idRangeOffset array starts.
Format4Arrays(d, offset) ==
    LET seg_count_x2 == U16(d, offset + 6)
        seg_count == seg_count_x2 \div 2
        arr(base) == [i \in 1..seg_count |-> U16(d, base + (i - 1) * 2)]
        sarr(base) == [i \in 1..seg_count |-> S16(d, base + (i - 1) * 2)]
    IN [offset |-> offset,
        length |-> U16(d, offset + 2),
        seg_count |-> seg_count,
        end_counts |-> arr(offset + 14),
        start_counts |-> arr(offset + 14 + seg_count_x2 + 2),
        id_deltas |-> sarr(offset + 14 + seg_count_x2 + 2 + seg_count_x2),
        id_range_offsets |-> arr(offset + 14 + seg_count_x2 * 3 + 2),
        id_range_offsets_start |-> offset + 14 + seg_count_x2 * 3 + 2]

\* Both maps assigned whatever the glyph id
StoreGidAlways(p, char_code, gid) ==
    [p EXCEPT !.cmap = (char_code :> gid) @@ @,
              !.gid_to_unicode = (gid :> char_code) @@ @]

\* "if gid != 0:" and the two assignments under it
StoreGid(p, char_code, gid) ==
    IF gid # 0
    THEN [p EXCEPT !.cmap = (char_code :> gid) @@ @,
                   !.gid_to_unicode = (gid :> char_code) @@ @]
    ELSE p

\* The body of the loop over char_code in range(start, end + 1) of segment i
\* (1-based here), from char_code on: computes gid and stores a nonzero one in
\* both maps.
RECURSIVE MapCodes(_, _, _, _)
MapCodes(p, f, i, char_code) ==
    IF ~p.ok \/ char_code > f.end_counts[i] THEN p
    ELSE LET start == f.start_counts[i]
             delta == f.id_deltas[i]
             range_off == f.id_range_offsets[i]
             range_off_loc == f.id_range_offsets_start + (i - 1) * 2
             glyph_index_addr == range_off_loc + range_off + (char_code - start) * 2
             reads_array == range_off # 0 /\ glyph_index_addr < f.offset + f.length
             p1 == IF reads_array
                   THEN Read(p, glyph_index_addr, 2, f.offset, f.offset + f.length)
                   ELSE p
             raw == IF p1.ok /\ reads_array THEN U16(p.data, glyph_index_addr) ELSE 0
             gid == IF range_off = 0 THEN (char_code + delta) % 65536
                    ELSE IF ~reads_array THEN 0
                    ELSE IF raw # 0 THEN (raw + delta) % 65536
                    ELSE 0
             p2 == IF p1.ok THEN StoreGid(p1, char_code, gid) ELSE p1
             p3 == IF p1.ok
                   THEN [p2 EXCEPT !.computed = Append(@, <<char_code, gid>>)]
                   ELSE p2
         IN MapCodes(p3, f, i, char_code + 1)

\* The loop over the segments, from segment i on; a segment starting at
\* 0xFFFF ends it.
RECURSIVE MapSegments(_, _, _)
MapSegments(p, f, i) ==
    IF ~p.ok \/ i > f.seg_count THEN p
    ELSE IF f.start_counts[i] = 65535 THEN p
    ELSE MapSegments(MapCodes(p, f, i, f.start_counts[i]), f, i + 1)

ParseCmapFormat4(p, offset) ==
    LET d == p.data
        p1 == Read(p, offset + 2, 2, offset, offset + 4)
    IN IF ~p1.ok THEN p1
       ELSE LET end == offset + U16(d, offset + 2)
                p2 == Read(p1, offset + 6, 2, offset, end)
            IN IF ~p2.ok THEN p2
               ELSE LET x2 == U16(d, offset + 6)
                        n == x2 \div 2
                        p3 == ReadArr(p2, offset + 14, 2, n, offset, end)
                        p4 == IF p3.ok
                              THEN ReadArr(p3, offset + 14 + x2 + 2, 2, n, offset, end)
                              ELSE p3
                        p5 == IF p4.ok
                              THEN ReadArr(p4, offset + 14 + x2 + 2 + x2, 2, n, offset, end)
                              ELSE p4
                        p6 == IF p5.ok
                              THEN ReadArr(p5, offset + 14 + x2 * 3 + 2, 2, n, offset, end)
                              ELSE p5
                    IN IF ~p6.ok THEN p6
                       ELSE MapSegments(p6, Format4Arrays(d, offset), 1)

\* The loop over the encoding records without the break: a later platform-0
\* record replaces a Windows-Unicode one found before it
RECURSIVE ScanSubtablesNoBreak(_, _, _, _, _, _)
ScanSubtablesNoBreak(p, off, end, i, num_subtables, subtable_offset) ==
    IF i >= num_subtables THEN <<p, subtable_offset>>
    ELSE LET p1 == Read(p, off + 4 + i * 8, 8, off, end)
             platform_id == U16(p.data, off + 4 + i * 8)
             encoding_id == U16(p.data, off + 4 + i * 8 + 2)
             s_off == U32(p.data, off + 4 + i * 8 + 4)
         IN IF ~p1.ok THEN <<p1, subtable_offset>>
            ELSE ScanSubtablesNoBreak(p1, off, end, i + 1, num_subtables,
                                      IF \/ platform_id = 0
                                         \/ platform_id = 3 /\ encoding_id \in {1, 10}
                                      THEN off + s_off
                                      ELSE subtable_offset)

\* The loop over the encoding records of the cmap table at off, from record i
\* on, with subtable_offset as chosen so far: <<parse, subtable_offset>>.
RECURSIVE ScanSubtables(_, _, _, _, _, _)
ScanSubtables(p, off, end, i, num_subtables, subtable_offset) ==
    IF i >= num_subtables THEN <<p, subtable_offset>>
    ELSE LET p1 == Read(p, off + 4 + i * 8, 8, off, end)
             platform_id == U16(p.data, off + 4 + i * 8)
             encoding_id == U16(p.data, off + 4 + i * 8 + 2)
             s_off == U32(p.data, off + 4 + i * 8 + 4)
         IN IF ~p1.ok THEN <<p1, subtable_offset>>
            ELSE IF platform_id = 3 /\ encoding_id \in {1, 10}
                 THEN <<p1, off + s_off>>
            ELSE ScanSubtables(p1, off, end, i + 1, num_subtables,
                               IF platform_id = 0 THEN off + s_off
                               ELSE subtable_offset)

ParseCmap(p) ==
    IF ~p.ok \/ ~Has(p.tables, TagCmap) THEN p
    ELSE LET off == p.tables[TagCmap][1]
             end == off + p.tables[TagCmap][2]
             p1 == Read(p, off + 2, 2, off, end)
         IN IF ~p1.ok THEN p1
            ELSE LET scan == ScanSubtables(p1, off, end, 0, U16(p.data, off + 2), 0)
                     p2 == scan[1]
                     subtable_offset == scan[2]
                 IN IF ~p2.ok \/ subtable_offset = 0 THEN p2
                    ELSE LET p3 == Read(p2, subtable_offset, 2, off, end)
                         IN IF ~p3.ok THEN p3
                            ELSE IF U16(p.data, subtable_offset) = 4
                                 THEN ParseCmapFormat4(p3, subtable_offset)
                            ELSE p3

\* TTFFont(font_path): the object, with ok = FALSE when the constructor raised
Parse(data) ==
    ParseCmap(ParseHmtx(ParseHhea(ParseHead(ParseDirectory(NewFont(data))))))

\* get_gid: self.cmap.get(char_code, 0)
GetGid(font, char_code) ==
    IF char_code \in DOMAIN font.cmap THEN font.cmap[char_code] ELSE 0

\* get_width with the fixed default for every glyph beyond the recorded range
GetWidthTailDefault(font, gid) ==
    IF gid < Len(font.advance_widths) THEN font.advance_widths[gid + 1]
    ELSE DefaultWidth

\* get_width, for gid >= 0
GetWidth(font, gid) ==
    IF gid < Len(font.advance_widths) THEN font.advance_widths[gid + 1]
    ELSE IF font.advance_widths # <<>>
         THEN font.advance_widths[Len(font.advance_widths)]
    ELSE DefaultWidth

----------------------------------------------------------------------------
(* The font files of the model.  BaseFont is a complete file: head with    *)
(* units_per_em 2048, hhea, hmtx with one width per glyph 0..6, and a cmap  *)
(* whose Windows-Unicode format-4 subtable maps ' ' to glyph 3 by idDelta  *)
(* and 'A', 'B' to glyphs 5, 6 through the glyph-id array.  With the font  *)
(* at 256 pt the line of 512 pt holds 4096 font units: "A A" is 4096 wide  *)
(* and "A B" 4097.                                                         *)

WholeFile == 4096

BaseCmap ==
    [plat |-> 3, enc |-> 1, fmt |-> 4, len |-> 44,
     segs |-> <<[s |-> 32, e |-> 32, d |-> -29, ro |-> 0],
                [s |-> 65, e |-> 66, d |-> 0, ro |-> 4],
                [s |-> 65535, e |-> 65535, d |-> 1, ro |-> 0]>>,
     gia |-> <<5, 6>>]

BaseFont ==
    [tabs |-> <<"head", "hhea", "hmtx", "cmap">>, ntab |-> 4,
     upem |-> 2048, bbox |-> <<-2090, -948, 3673, 2524>>,
     ascent |-> 1901, descent |-> -483,
     nm |-> 7, aw |-> <<1229, 0, 651, 652, 1229, 1722, 1723>>,
     cm |-> BaseCmap, pre |-> <<>>, post |-> <<>>, cut |-> WholeFile]

----------------------------------------------------------------------------
(* SimplePDFGenerator: state and layout.  A content stream is the sequence *)
(* of the instructions appended to current_content; an instruction is a    *)
(* record [op, size, x, y, hex, chars]:                                    *)
(*   BT  "BT /F1 <size> Tf\n"          Tf  "/F1 <size> Tf\n"               *)
(*   Tj  "1 0 0 1 <x> <y> Tm <hex> Tj\n"   ET  "ET\n"                      *)
(* hex is the string of hex digits (values 0..15) between < and >.  Three  *)
(* fields of a Tj are not in the bytes: chars keeps, for each glyph of     *)
(* hex, the character it was written for; size is the font_size the line   *)
(* was measured with; wrapped tells that the line was written after a wrap *)
(* of the same literal line.                                               *)

page_width == 612
page_height == 792
margin_left == 50
margin_top == 50
InitialFontSize == 10
InitialLineHeight == 12
Space == 32
Newline == 10

Instr(op, size, x, y, hex, chars) ==
    [op |-> op, size |-> size, x |-> x, y |-> y, hex |-> hex, chars |-> chars,
     wrapped |-> FALSE]
BT(size) == Instr("BT", size, 0, 0, <<>>, <<>>)
Tf(size) == Instr("Tf", size, 0, 0, <<>>, <<>>)
ET == Instr("ET", 0, 0, 0, <<>>, <<>>)

\* f"{gid:02X}": two hex digits for a glyph id below 256
Hex2(gid) ==
    IF gid < 256 THEN <<gid \div 16, gid % 16>>
    ELSE <<gid \div 4096, (gid \div 256) % 16, (gid \div 16) % 16, gid % 16>>

\* f"{gid:04X}": at least four hex digits, most significant first
Hex4(gid) ==
    IF gid < 65536
    THEN <<gid \div 4096, (gid \div 256) % 16, (gid \div 16) % 16, gid % 16>>
    ELSE <<gid \div 65536, (gid \div 4096) % 16, (gid \div 256) % 16,
           (gid \div 16) % 16, gid % 16>>

\* The character of a hex digit under the X format: 0-9, A-F
HexChar(d) == IF d < 10 THEN 48 + d ELSE 55 + d

\* The text of a string of hex digits
HexText(hex) == [k \in 1..Len(hex) |-> HexChar(hex[k])]

\* "".join([f"{gid:04X}" for gid in gids])
HexStr(gids) == Concat([i \in 1..Len(gids) |-> Hex4(gids[i])])

\* The object before __init__ runs
NoObject ==
    [st |-> "new", font_loaded |-> FALSE, font |-> NewFont(<<>>),
     pages_content |-> <<>>, current_content |-> <<>>,
     y |-> 0, font_size |-> 0, line_height |-> 0, used_gids |-> {},
     buffer |-> <<>>, buffer_pos |-> 0, obj_offsets |-> <<>>, obj_count |-> 0,
     err |-> "", ngets |-> 0, wraps |-> 0, after_wrap |-> FALSE]

\* _init_page_state with font_size kept in one place for all generators
InitPageStateSharedSize(g) ==
    [g EXCEPT !.current_content =
        Append(@, BT(IF gens[1].st = "ready" THEN gens[1].font_size
                     ELSE g.font_size))]

\* _init_page_state
InitPageState(g) ==
    [g EXCEPT !.current_content = Append(@, BT(g.font_size))]

\* __init__: the font is read from `data`; an exception of TTFFont is caught
\* and leaves font_loaded False and self.font unset (font.ok = FALSE).
Construct(g, data) ==
    LET f == Parse(data)
    IN InitPageState(
         [g EXCEPT !.st = "ready",
                   !.y = page_height - margin_top,
                   !.font = f,
                   !.font_loaded = f.ok,
                   !.font_size = InitialFontSize,
                   !.line_height = InitialLineHeight,
                   !.used_gids = {0}])

\* _add_page without "self.y = self.page_height - self.margin_top"
AddPageKeepsY(g) ==
    LET sealed == IF g.current_content # <<>>
                  THEN [g EXCEPT !.pages_content =
                                    Append(@, Append(g.current_content, ET))]
                  ELSE g
    IN InitPageState([sealed EXCEPT !.current_content = <<>>])

\* _add_page that keeps the sealed page's stream open: the new page's
\* instructions go on in it
AddPageSameStream(g) ==
    InitPageState([g EXCEPT !.pages_content = Append(@, g.current_content),
                            !.y = page_height - margin_top])

\* _add_page
AddPage(g) ==
    LET sealed == IF g.current_content # <<>>
                  THEN [g EXCEPT !.pages_content =
                                    Append(@, Append(g.current_content, ET))]
                  ELSE g
    IN InitPageState([sealed EXCEPT !.current_content = <<>>,
                                    !.y = page_height - margin_top])

\* int(size * 1.2) for size >= 0: the float product truncated
LineHeightOf(size) == (6 * size) \div 5

\* set_font_size
\* set_font_size that changes the size without a font-selection instruction
SetFontSizeSilent(g, size) ==
    [g EXCEPT !.font_size = size, !.line_height = LineHeightOf(size)]

SetFontSize(g, size) ==
    LET g1 == [g EXCEPT !.font_size = size, !.line_height = LineHeightOf(size)]
    IN IF g1.current_content # <<>>
       THEN [g1 EXCEPT !.current_content = Append(@, Tf(size))]
       ELSE g1

\* _write_line_gids that starts a page when the line after this one would
\* not fit
WriteLineGidsLookAhead(g, gids, chars) ==
    IF gids = <<>> THEN g
    ELSE LET g1 == IF g.y - g.line_height < margin_top THEN AddPage(g) ELSE g
             cmd == [Instr("Tj", g.font_size, margin_left, g1.y, HexStr(gids), chars)
                        EXCEPT !.wrapped = g.after_wrap]
         IN [g1 EXCEPT !.current_content = Append(@, cmd),
                       !.y = @ - g1.line_height]

\* _write_line_gids without the return on an empty line
WriteLineGidsEmptyToo(g, gids, chars) ==
    LET g1 == IF g.y < margin_top THEN AddPage(g) ELSE g
        cmd == [Instr("Tj", g.font_size, margin_left, g1.y, HexStr(gids), chars)
                   EXCEPT !.wrapped = g.after_wrap]
    IN [g1 EXCEPT !.current_content = Append(@, cmd),
                  !.y = @ - g1.line_height]

\* _write_line_gids (chars: the characters the glyphs stand for)
WriteLineGids(g, gids, chars) ==
    IF gids = <<>> THEN g
    ELSE LET g1 == IF g.y < margin_top THEN AddPage(g) ELSE g
             cmd == [Instr("Tj", g.font_size, margin_left, g1.y, HexStr(gids), chars)
                        EXCEPT !.wrapped = g.after_wrap]
         IN [g1 EXCEPT !.current_content = Append(@, cmd),
                       !.y = @ - g1.line_height]

\* str.split(sep): the pieces between the separators, empty ones kept
RECURSIVE Split(_, _)
Split(s, sep) ==
    IF \A k \in 1..Len(s) : s[k] # sep THEN <<s>>
    ELSE LET k == CHOOSE j \in 1..Len(s) :
                      s[j] = sep /\ \A h \in 1..(j - 1) : s[h] # sep
         IN <<SubSeq(s, 1, k - 1)>> \o Split(SubSeq(s, k + 1, Len(s)), sep)

Range(s) == {s[k] : k \in 1..Len(s)}

\* s[lo] + ... + s[hi], by halves
RECURSIVE SumRange(_, _, _)
SumRange(s, lo, hi) ==
    IF lo > hi THEN 0
    ELSE IF lo = hi THEN s[lo]
    ELSE SumRange(s, lo, (lo + hi) \div 2) + SumRange(s, (lo + hi) \div 2 + 1, hi)

SumSeq(s) == SumRange(s, 1, Len(s))

\* The width of glyphs at the size of g, times units_per_em: the source adds
\* get_width(gid) * scale with scale = font_size / units_per_em.
ScaledWidth(g, gids) ==
    SumSeq([k \in 1..Len(gids) |-> GetWidth(g.font, gids[k]) * g.font_size])

\* max_width = page_width - 2 * margin_left, on the scale of ScaledWidth
MaxWidth(g) == (page_width - 2 * margin_left) * g.font.units_per_em

\* The wrap check made on the line as it stands, before the word is added
NeedsWrapBeforeWord(g, current_line_width, word_width, current_line_gids) ==
    /\ current_line_width > MaxWidth(g)
    /\ current_line_gids # <<>>

\* "Check wrap": current_line_width + word_width > max_width and current_line_gids
NeedsWrap(g, current_line_width, word_width, current_line_gids) ==
    /\ current_line_width + word_width > MaxWidth(g)
    /\ current_line_gids # <<>>

\* The wrap without the removal of the leading space
StripsSpaceNever(g, word_gids) == FALSE

\* "Si era espacio inicial, quitarlo": whether word_gids.pop(0) runs
StripsSpace(g, word_gids) ==
    word_gids # <<>> /\ word_gids[1] = GetGid(g.font, Space)

\* used_gids replaced by the glyph ids of the latest word
NoteGidsForgetting(g, word_gids) ==
    [g EXCEPT !.used_gids = Range(word_gids)]

\* used_gids as one set shared by all generators (a class attribute)
NoteGidsShared(g, word_gids) ==
    [g EXCEPT !.used_gids = @ \cup Range(word_gids)
                              \cup UNION {gens[b].used_gids : b \in DOMAIN gens}]

\* self.used_gids.add(gid) for the glyphs of one word
NoteGids(g, word_gids) ==
    [g EXCEPT !.used_gids = @ \cup Range(word_gids)]

\* The loop over enumerate(words_in_line) from word i (0-based) on, then the
\* final _write_line_gids(current_line_gids).
RECURSIVE AddWords(_, _, _, _, _, _)
AddWords(g, words, i, cur_gids, cur_chars, cur_width) ==
    IF i >= Len(words) THEN WriteLineGids(g, cur_gids, cur_chars)
    ELSE LET word == words[i + 1]
             space_gid == GetGid(g.font, Space)
             word_gids == (IF i > 0 THEN <<space_gid>> ELSE <<>>)
                             \o [k \in 1..Len(word) |-> GetGid(g.font, word[k])]
             word_chars == (IF i > 0 THEN <<Space>> ELSE <<>>) \o word
             word_width == ScaledWidth(g, word_gids)
             g1 == NoteGids(g, word_gids)
         IN IF NeedsWrap(g1, cur_width, word_width, cur_gids)
            THEN LET g2 == [WriteLineGids(g1, cur_gids, cur_chars)
                               EXCEPT !.wraps = @ + 1, !.after_wrap = TRUE]
                     strip == StripsSpace(g2, word_gids)
                 IN AddWords(g2, words, i + 1,
                             IF strip THEN Tail(word_gids) ELSE word_gids,
                             IF strip THEN Tail(word_chars) ELSE word_chars,
                             IF strip
                             THEN word_width - ScaledWidth(g2, <<space_gid>>)
                             ELSE word_width)
            ELSE AddWords(g1, words, i + 1, cur_gids \o word_gids,
                          cur_chars \o word_chars, cur_width + word_width)

\* The loop over the literal lines, from line k on
RECURSIVE AddLines(_, _, _)
AddLines(g, lines, k) ==
    IF k > Len(lines) THEN [g EXCEPT !.after_wrap = FALSE]
    ELSE AddLines(AddWords([g EXCEPT !.after_wrap = FALSE],
                           Split(lines[k], Space), 0, <<>>, <<>>, 0),
                  lines, k + 1)

Raise(g, e) == [g EXCEPT !.err = e]

\* add_text.  Without a font the first character or space raises
\* AttributeError (self.font was never set) before anything is changed; a
\* font with units_per_em 0 raises ZeroDivisionError when scale is computed.
\* add_text that returns at once when no font was loaded
AddTextSkipsWithoutFont(g, text) ==
    IF ~g.font_loaded THEN Raise(g, "")
    ELSE IF g.font.units_per_em = 0 THEN Raise(g, "ZeroDivisionError")
    ELSE Raise(AddLines(g, Split(text, Newline), 1), "")

AddText(g, text) ==
    IF g.font_loaded /\ g.font.units_per_em = 0 THEN Raise(g, "ZeroDivisionError")
    ELSE IF ~g.font_loaded
    THEN IF \E k \in 1..Len(text) : text[k] # Newline
         THEN Raise(g, "AttributeError")
         ELSE Raise(g, "")
    ELSE Raise(AddLines(g, Split(text, Newline), 1), "")

----------------------------------------------------------------------------
(* SimplePDFGenerator.get_pdf_bytes.  The buffer is the sequence of the    *)
(* chunks passed to write(); a chunk [k, n, refs, data, len] has a kind k, *)
(* the number n it prints (object number, count, offset), the indirect     *)
(* references <<key, object number>> it prints as "<number> 0 R", the data *)
(* it carries, and len, the number of bytes of its text.  The fixed part   *)
(* of each len is the length of the literal text of the source line.       *)

\* len(str(n))
RECURSIVE Digits(_)
Digits(n) == IF n < 0 THEN 1 + Digits(-n) ELSE IF n < 10 THEN 1 ELSE 1 + Digits(n \div 10)

Chunk(k, n, refs, data, len) ==
    [k |-> k, n |-> n, refs |-> refs, data |-> data, len |-> len]

\* The number of bytes of one instruction of a content stream
InstrLen(i) ==
    CASE i.op = "BT" -> 11 + Digits(i.size)
      [] i.op = "Tf" -> 8 + Digits(i.size)
      [] i.op = "Tj" -> 19 + Digits(i.x) + Digits(i.y) + Len(i.hex)
      [] i.op = "ET" -> 3
      [] OTHER -> 16

\* len(content) of a sealed page
ContentLen(content) == SumSeq([k \in 1..Len(content) |-> InstrLen(content[k])])

\* write(data); buffer_pos is what buffer.tell() returns
Write(g, c) ==
    [g EXCEPT !.buffer = Append(@, c), !.buffer_pos = @ + c.len]

RECURSIVE WriteAll(_, _)
WriteAll(g, cs) == IF cs = <<>> THEN g ELSE WriteAll(Write(g, Head(cs)), Tail(cs))

\* start_obj with the offset taken after the "N 0 obj" line was written
StartObjAfterWrite(g) ==
    LET n == g.obj_count + 1
        g1 == Write([g EXCEPT !.obj_count = n],
                    Chunk("obj", n, <<>>, <<>>, Digits(n) + 7))
    IN [g1 EXCEPT !.obj_offsets = Append(@, g1.buffer_pos)]

\* start_obj
StartObj(g) ==
    LET n == g.obj_count + 1
    IN Write([g EXCEPT !.obj_count = n,
                       !.obj_offsets = Append(@, g.buffer_pos)],
             Chunk("obj", n, <<>>, <<>>, Digits(n) + 7))

\* end_obj
EndObj(g) == Write(g, Chunk("endobj", 0, <<>>, <<>>, 8))

\* One object: start_obj(), the writes of its body, end_obj()
WriteObj(g, body) == EndObj(WriteAll(StartObj(g), body))

\* "<< /Length n >>\nstream\n", the stream bytes, "\nendstream"
StreamBody(kind, data, len) ==
    <<Chunk("streamhdr", len, <<>>, <<>>, 22 + Digits(len)),
      Chunk(kind, 0, <<>>, data, len),
      Chunk("endstream", 0, <<>>, <<>>, 10)>>

catalog_id == 1
pages_root_id == 2
font_id == 3
cid_font_id == 4
font_desc_id == 5
to_unicode_id == 6
font_file_id == 7
first_page_id == 8
chunk_size == 100

\* sorted(list(s)) of a set of numbers
\* The numbers of s, all within lo..hi, in ascending order: those of the lower
\* half of the interval, then those of the upper half
RECURSIVE SortedIn(_, _, _)
SortedIn(s, lo, hi) ==
    IF s = {} THEN <<>>
    ELSE IF lo = hi THEN <<lo>>
    ELSE LET mid == (lo + hi) \div 2
         IN SortedIn({x \in s : x <= mid}, lo, mid)
               \o SortedIn({x \in s : x > mid}, mid + 1, hi)

Sorted(s) ==
    IF s = {} THEN <<>>
    ELSE SortedIn(s, CHOOSE x \in s : \A y \in s : x <= y,
                     CHOOSE x \in s : \A y \in s : x >= y)

\* The body of the loop "for gid in sorted_gids" that builds the W array.  w
\* holds the loop's variables: w_array, the runs <<block_start, current_block>>
\* closed so far, and the open block.
WStep(font, w, gid) ==
    LET closes == gid # w.prev_gid + 1
    IN [w_array |-> IF closes
                    THEN Append(w.w_array, <<w.block_start, w.current_block>>)
                    ELSE w.w_array,
        current_block |-> Append(IF closes THEN <<>> ELSE w.current_block,
                                 GetWidth(font, gid)),
        block_start |-> IF closes THEN gid ELSE w.block_start,
        prev_gid |-> gid]

\* The loop over sorted_gids[lo..hi], in order, from the variables w: the
\* first half, then the second from where the first ended (prev_gid is then
\* the last glyph id of the first half; reading it completes the first half
\* before the second starts).
RECURSIVE WRuns(_, _, _, _, _)
WRuns(font, sorted_gids, lo, hi, w) ==
    IF lo > hi THEN w
    ELSE IF lo = hi THEN WStep(font, w, sorted_gids[lo])
    ELSE LET mid == (lo + hi) \div 2
             first == WRuns(font, sorted_gids, lo, mid, w)
         IN IF first.prev_gid = sorted_gids[mid]
            THEN WRuns(font, sorted_gids, mid + 1, hi, first)
            ELSE first

\* "if current_block: w_array.append(...)" after the loop
WClose(w) ==
    IF w.current_block # <<>>
    THEN Append(w.w_array, <<w.block_start, w.current_block>>)
    ELSE w.w_array

\* The loop started with prev_gid = block_start instead of block_start - 1
WArrayPrevAtStart(font, used_gids) ==
    LET sorted_gids == Sorted(used_gids)
    IN IF sorted_gids = <<>> THEN <<>>
       ELSE WClose(WRuns(font, sorted_gids, 1, Len(sorted_gids),
                         [w_array |-> <<>>, current_block |-> <<>>,
                          block_start |-> sorted_gids[1],
                          prev_gid |-> sorted_gids[1]]))

WArray(font, used_gids) ==
    LET sorted_gids == Sorted(used_gids)
    IN IF sorted_gids = <<>> THEN <<>>
       ELSE WClose(WRuns(font, sorted_gids, 1, Len(sorted_gids),
                         [w_array |-> <<>>, current_block |-> <<>>,
                          block_start |-> sorted_gids[1],
                          prev_gid |-> sorted_gids[1] - 1]))

\* len of ' '.join of the decimal texts of ns
JoinedLen(ns) ==
    SumSeq([k \in 1..Len(ns) |-> Digits(ns[k])]) + Max(Len(ns) - 1, 0)

\* len(w_str): each run is "<start> [<w> <w> ...]", the runs joined by ' '
WStrLen(w_array) ==
    SumSeq([k \in 1..Len(w_array) |->
              Digits(w_array[k][1]) + 3 + JoinedLen(w_array[k][2])])
        + Max(Len(w_array) - 1, 0)

\* used_gids listed without glyph 0
ListOfSetWithoutNotdef(s) == Sorted(s \ {0})

\* list(self.used_gids): a set of small integers is listed in hash-table
\* order, which for the glyph ids of the model (all below the table size) is
\* ascending order.
ListOfSet(s) == Sorted(s)

\* The bfchar groups: gids_list[i:i+chunk_size] for i in range(0, len, chunk_size),
\* each a record of the count written in "<count> beginbfchar" and the entries
\* "<gid:04X> <uni:04X>", an entry kept as its two hex strings.
RECURSIVE BfGroups(_, _)
BfGroups(font, gids_list) ==
    IF gids_list = <<>> THEN <<>>
    ELSE LET n == Min(chunk_size, Len(gids_list))
             entry(gid) ==
                 <<Hex4(gid),
                   Hex4(IF gid \in DOMAIN font.gid_to_unicode
                        THEN font.gid_to_unicode[gid] ELSE 0)>>
             chunk == SubSeq(gids_list, 1, n)
         IN <<[count |-> Len(chunk),
               entries |-> [k \in 1..Len(chunk) |-> entry(chunk[k])]]>>
               \o BfGroups(font, SubSeq(gids_list, n + 1, Len(gids_list)))

\* len(cmap_data): 9 lines before the groups (229 bytes), 4 after (58), each
\* group "<n> beginbfchar", its entries, "endbfchar"; the lines joined by "\n".
CMapLen(groups) ==
    LET grouplen(gr) == Digits(gr.count) + 12 + 9
                          + SumSeq([k \in 1..Len(gr.entries) |->
                                      5 + Len(gr.entries[k][1])
                                        + Len(gr.entries[k][2])])
        lines == 9 + 4 + SumSeq([k \in 1..Len(groups) |->
                                   2 + Len(groups[k].entries)])
    IN 229 + 58 + SumSeq([k \in 1..Len(groups) |-> grouplen(groups[k])])
          + (lines - 1)

\* The last page sealed without its ET
SealLastPageWithoutET(g) ==
    IF g.current_content # <<>>
    THEN [g EXCEPT !.pages_content = Append(@, g.current_content)]
    ELSE g

\* The open stream emptied once it is sealed
SealLastPageClearing(g) ==
    LET g1 == IF g.current_content # <<>>
              THEN [g EXCEPT !.current_content = <<>>,
                             !.pages_content = Append(@, Append(g.current_content, ET))]
              ELSE g
    IN IF g1.pages_content = <<>>
       THEN [g1 EXCEPT !.pages_content = <<<<Instr("Dummy", 12, 0, 0, <<>>, <<>>)>>>>]
       ELSE g1

\* "Cerrar ultima pagina": ET is appended to current_content, which is kept
SealLastPage(g) ==
    LET g1 == IF g.current_content # <<>>
              THEN LET cc == Append(g.current_content, ET)
                   IN [g EXCEPT !.current_content = cc,
                                !.pages_content = Append(@, cc)]
              ELSE g
    IN IF g1.pages_content = <<>>
       THEN [g1 EXCEPT !.pages_content = <<<<Instr("Dummy", 12, 0, 0, <<>>, <<>>)>>>>]
       ELSE g1

CatalogBody ==
    <<Chunk("Catalog", 0, <<<<"Pages", pages_root_id>>>>, <<>>,
            32 + Digits(pages_root_id))>>

PagesBody(num_pages) ==
    LET kids == [i \in 1..num_pages |-> first_page_id + (i - 1)]
    IN <<Chunk("Pages", num_pages, [i \in 1..num_pages |-> <<"Kids", kids[i]>>],
               <<>>,
               35 + SumSeq([i \in 1..num_pages |-> Digits(kids[i]) + 4])
                  + Max(num_pages - 1, 0) + Digits(num_pages))>>

Type0Body ==
    <<Chunk("Type0", 0,
            <<<<"DescendantFonts", cid_font_id>>, <<"ToUnicode", to_unicode_id>>>>,
            <<>>, 124 + Digits(cid_font_id) + Digits(to_unicode_id))>>

CIDFontBody(g) ==
    LET w_array == WArray(g.font, g.used_gids)
    IN <<Chunk("CIDFontType2", 0, <<<<"FontDescriptor", font_desc_id>>>>, w_array,
               180 + Digits(font_desc_id) + WStrLen(w_array))>>

FontDescriptorBody(g) ==
    LET f == g.font
    IN <<Chunk("FontDescriptor", 0, <<<<"FontFile2", font_file_id>>>>,
               [bbox |-> f.bbox, ascent |-> f.ascent, descent |-> f.descent,
                cap_height |-> f.cap_height],
               157 + Digits(f.bbox[1]) + Digits(f.bbox[2]) + Digits(f.bbox[3])
                   + Digits(f.bbox[4]) + Digits(f.ascent) + Digits(f.descent)
                   + Digits(f.cap_height) + Digits(font_file_id))>>

ToUnicodeBody(g) ==
    LET groups == BfGroups(g.font, ListOfSet(g.used_gids))
    IN StreamBody("ToUnicode", groups, CMapLen(groups))

FontFileBody(g) == StreamBody("FontFile2", g.font.data, Len(g.font.data))

\* The Page object with /Contents one object too early
PageBodyContentsOffByOne(content_id) ==
    <<Chunk("Page", 0,
            <<<<"Parent", pages_root_id>>, <<"Contents", content_id - 1>>,
              <<"F1", font_id>>>>,
            <<0, 0, page_width, page_height>>,
            101 + Digits(pages_root_id) + Digits(page_width) + Digits(page_height)
                + Digits(content_id - 1) + Digits(font_id))>>

PageBody(content_id) ==
    <<Chunk("Page", 0,
            <<<<"Parent", pages_root_id>>, <<"Contents", content_id>>,
              <<"F1", font_id>>>>,
            <<0, 0, page_width, page_height>>,
            101 + Digits(pages_root_id) + Digits(page_width) + Digits(page_height)
                + Digits(content_id) + Digits(font_id))>>

\* The first loop over pages_content: the Page objects from page i on
RECURSIVE WritePages(_, _, _)
WritePages(g, first_content_id, i) ==
    IF i > Len(g.pages_content) THEN g
    ELSE WritePages(WriteObj(g, PageBody(first_content_id + (i - 1))),
                    first_content_id, i + 1)

\* The second loop: the content stream objects from page i on
RECURSIVE WriteContents(_, _)
WriteContents(g, i) ==
    IF i > Len(g.pages_content) THEN g
    ELSE LET content == g.pages_content[i]
         IN WriteContents(
               WriteObj(g, StreamBody("Contents", content, ContentLen(content))),
               i + 1)

\* "Xref" and "Trailer"
WriteXref(g) ==
    LET xref_offset == g.buffer_pos
        size == g.obj_count + 1
    IN WriteAll(g,
         <<Chunk("xref", 0, <<>>, <<>>, 5),
           Chunk("xrefcount", size, <<>>, <<>>, 3 + Digits(size)),
           Chunk("xreffree", 0, <<>>, <<>>, 20)>>
         \o [k \in 1..Len(g.obj_offsets) |->
               Chunk("xrefentry", g.obj_offsets[k], <<>>, <<>>,
                     Max(10, Digits(g.obj_offsets[k])) + 10)]
         \o <<Chunk("trailer", 0, <<>>, <<>>, 8),
              Chunk("trailerdict", size, <<<<"Root", catalog_id>>>>, <<>>,
                    24 + Digits(size) + Digits(catalog_id)),
              Chunk("startxref", 0, <<>>, <<>>, 10),
              Chunk("startxrefvalue", xref_offset, <<>>, <<>>, 1 + Digits(xref_offset)),
              Chunk("eof", 0, <<>>, <<>>, 6)>>)

\* get_pdf_bytes.  Without a font it raises AttributeError at the first
\* self.font.get_width, after object 4 was started; otherwise it returns
\* the buffer.
GetPdfBytes(g) ==
    LET g1 == [SealLastPage(g) EXCEPT !.buffer = <<>>, !.buffer_pos = 0,
                                      !.obj_offsets = <<>>, !.obj_count = 0,
                                      !.ngets = @ + 1]
        num_pages == Len(g1.pages_content)
        first_content_id == first_page_id + num_pages
        g2 == Write(g1, Chunk("header", 0, <<>>, <<>>, 15))
        g3 == WriteObj(g2, CatalogBody)
        g4 == WriteObj(g3, PagesBody(num_pages))
        g5 == WriteObj(g4, Type0Body)
    IN IF ~g.font_loaded /\ g.used_gids # {}
       THEN Raise(StartObj(g5), "AttributeError")
       ELSE LET g6 == WriteObj(g5, CIDFontBody(g5))
                g7 == WriteObj(g6, FontDescriptorBody(g6))
                g8 == WriteObj(g7, ToUnicodeBody(g7))
                g9 == WriteObj(g8, FontFileBody(g8))
                g10 == WritePages(g9, first_content_id, 1)
                g11 == WriteContents(g10, 1)
            IN Raise(WriteXref(g11), "")

----------------------------------------------------------------------------
(* The state machine: one or two document builds against the font file.   *)

MaxOps == 3       \* set_font_size / add_text calls per build
MaxGets == 2      \* get_pdf_bytes calls per build

\* hmtx holds 4 widths only: glyphs 5 and 6 fall back to the last one
ShortHmtxFont == [BaseFont EXCEPT !.nm = 4, !.aw = <<1229, 0, 651, 652>>]
\* The only cmap subtable has format 6: no character is mapped
Format6Font == [BaseFont EXCEPT !.cm.fmt = 6]
\* The file ends inside the hmtx table
TruncatedFont == [BaseFont EXCEPT !.cut = 180]

Fonts == {BaseFont, ShortHmtxFont, Format6Font, TruncatedFont}

Sizes == {10, 256}

Texts ==
    { <<>>,                                   \* ""
      <<10>>,                                 \* "\n"
      <<65, 32, 65>>,                         \* "A A"
      <<65, 32, 66>>,                         \* "A B"
      <<65, 65, 65, 32, 90>>,                 \* "AAA Z"
      <<32, 66, 32, 32, 65, 32>>,             \* " B  A "
      <<66, 32, 66, 32, 66, 10, 90>> }        \* "B B B\nZ"

NoProbe == [st |-> "none", font |-> NewFont(<<>>), fn |-> "", arg |-> 0, result |-> 0]

CallRec(op, size, text) == [op |-> op, size |-> size, text |-> text]

Init ==
    /\ fontFile \in {FontBytes(fp) : fp \in Fonts}
    /\ gens = [b \in {1} |-> NoObject]
    /\ log = [b \in {1} |-> <<>>]
    /\ probe = NoProbe

\* pdf = SimplePDFGenerator()
NewGenerator(b) ==
    /\ gens[b].st = "new"
    /\ gens' = [gens EXCEPT ![b] = Construct(@, fontFile)]
    /\ UNCHANGED <<fontFile, log, probe>>

CanLayout(b) ==
    /\ gens[b].st = "ready"
    /\ gens[b].ngets = 0
    /\ Len(log[b]) < MaxOps

\* pdf.set_font_size(size)
CallSetFontSize(b, size) ==
    /\ CanLayout(b)
    /\ gens' = [gens EXCEPT ![b] = Raise(SetFontSize(@, size), "")]
    /\ log' = [log EXCEPT ![b] = Append(@, CallRec("set_font_size", size, <<>>))]
    /\ UNCHANGED <<fontFile, probe>>

\* pdf.add_text(text)
CallAddText(b, text) ==
    /\ CanLayout(b)
    /\ gens' = [gens EXCEPT ![b] = AddText(@, text)]
    /\ log' = [log EXCEPT ![b] = Append(@, CallRec("add_text", 0, text))]
    /\ UNCHANGED <<fontFile, probe>>

\* pdf.get_pdf_bytes()
CallGetPdfBytes(b) ==
    /\ gens[b].st = "ready"
    /\ gens[b].ngets < MaxGets
    /\ gens' = [gens EXCEPT ![b] = GetPdfBytes(@)]
    /\ UNCHANGED <<fontFile, log, probe>>

Next ==
    \/ \E b \in DOMAIN gens : NewGenerator(b)
    \/ \E b \in DOMAIN gens, size \in Sizes : CallSetFontSize(b, size)
    \/ \E b \in DOMAIN gens, text \in Texts : CallAddText(b, text)
    \/ \E b \in DOMAIN gens : CallGetPdfBytes(b)

Spec == Init /\ [][Next]_vars

----------------------------------------------------------------------------
(* The reader on its own: font = TTFFont(path), then get_gid / get_width   *)
(* queries on the object, over complete, inconsistent and cut files.       *)

MaxGid == 8       \* glyph ids queried are 0..MaxGid

\* No hmtx table: no width is recorded
NoHmtxFont == [BaseFont EXCEPT !.tabs = <<"head", "hhea", "cmap">>, !.ntab = 3]
\* hhea announces 7 metrics, the hmtx table holds 4 records and is followed
\* by the cmap table
LongMetricsFont == [BaseFont EXCEPT !.aw = <<1229, 0, 651, 652>>]
\* The subtable's length field ends before the glyph-id entry of 'B'
ShortSubtableFont == [BaseFont EXCEPT !.cm.len = 42]

\* The complete file with "wOFF" in place of the sfnt version 0x00010000
BadMagicFile == <<119, 79, 70, 70>> \o SubSeq(FontBytes(BaseFont), 5, Len(FontBytes(BaseFont)))
\* No cmap table
NoCmapFont == [BaseFont EXCEPT !.tabs = <<"head", "hhea", "hmtx">>, !.ntab = 3]

\* ' ' and U+00A0 both map to glyph 3 (as in DejaVuSans)
AliasFont ==
    [BaseFont EXCEPT !.cm.len = 52,
                     !.cm.segs = <<[s |-> 32, e |-> 32, d |-> -29, ro |-> 0],
                                   [s |-> 65, e |-> 66, d |-> 0, ro |-> 6],
                                   [s |-> 160, e |-> 160, d |-> -157, ro |-> 0],
                                   [s |-> 65535, e |-> 65535, d |-> 1, ro |-> 0]>>]

\* Two segments hold 'B': the first maps it to glyph 6, the second to 7
OverlapFont ==
    [BaseFont EXCEPT !.cm.len = 48,
                     !.cm.segs = <<[s |-> 32, e |-> 32, d |-> -29, ro |-> 0],
                                   [s |-> 65, e |-> 66, d |-> -60, ro |-> 0],
                                   [s |-> 66, e |-> 66, d |-> -59, ro |-> 0],
                                   [s |-> 65535, e |-> 65535, d |-> 1, ro |-> 0]>>,
                     !.cm.gia = <<>>]

\* The glyph-id array holds 0 for 'A' (idDelta 1) and 5 for 'B'; a later
\* segment holds 'B' again with an idDelta that gives 0
ZeroGlyphFont ==
    [BaseFont EXCEPT !.cm.len = 52,
                     !.cm.segs = <<[s |-> 32, e |-> 32, d |-> -29, ro |-> 0],
                                   [s |-> 65, e |-> 66, d |-> 1, ro |-> 6],
                                   [s |-> 66, e |-> 66, d |-> -66, ro |-> 0],
                                   [s |-> 65535, e |-> 65535, d |-> 1, ro |-> 0]>>,
                     !.cm.gia = <<0, 5>>]

\* No head table, no hhea table, neither
NoHeadFont == [BaseFont EXCEPT !.tabs = <<"hhea", "hmtx", "cmap">>, !.ntab = 3]
NoHheaFont == [BaseFont EXCEPT !.tabs = <<"head", "hmtx", "cmap">>, !.ntab = 3]
NoHeadHheaFont == [BaseFont EXCEPT !.tabs = <<"hmtx", "cmap">>, !.ntab = 2]

FontFiles ==
    {FontBytes(fp) : fp \in Fonts \cup {NoHmtxFont, NoCmapFont, LongMetricsFont,
                                        ShortSubtableFont, AliasFont,
                                        OverlapFont, ZeroGlyphFont,
                                        NoHeadFont, NoHheaFont, NoHeadHheaFont}}
        \cup {BadMagicFile}
        \cup {FontBytes([BaseFont EXCEPT !.cut = n]) :
                 n \in 0..Len(FontBytes(BaseFont))}

Codes == {0, 32, 33, 65, 66, 67, 90, 65535}

InitFont ==
    /\ fontFile \in FontFiles
    /\ gens = [b \in {1} |-> NoObject]
    /\ log = [b \in {1} |-> <<>>]
    /\ probe = NoProbe

\* font = TTFFont(path): the object exists only if _parse did not raise
LoadFont ==
    /\ probe.st = "none"
    /\ probe' = [probe EXCEPT !.font = Parse(fontFile),
                              !.st = IF Parse(fontFile).ok THEN "loaded"
                                     ELSE "raised"]
    /\ UNCHANGED <<fontFile, gens, log>>

\* font.get_gid(char_code)
CallGetGid(char_code) ==
    /\ probe.st = "loaded"
    /\ probe' = [probe EXCEPT !.fn = "get_gid", !.arg = char_code,
                              !.result = GetGid(probe.font, char_code)]
    /\ UNCHANGED <<fontFile, gens, log>>

\* font.get_width(gid)
CallGetWidth(gid) ==
    /\ probe.st = "loaded"
    /\ probe' = [probe EXCEPT !.fn = "get_width", !.arg = gid,
                              !.result = GetWidth(probe.font, gid)]
    /\ UNCHANGED <<fontFile, gens, log>>

NextFont ==
    \/ LoadFont
    \/ \E char_code \in Codes : CallGetGid(char_code)
    \/ \E gid \in 0..MaxGid : CallGetWidth(gid)

SpecFont == InitFont /\ [][NextFont]_vars

----------------------------------------------------------------------------
(* Two generators built from the same font file; the second is driven by   *)
(* the calls already made on the first, in the same order, the two builds  *)
(* interleaving freely.                                                    *)

InitTwo ==
    /\ fontFile \in {FontBytes(fp) : fp \in Fonts}
    /\ gens = [b \in {1, 2} |-> NoObject]
    /\ log = [b \in {1, 2} |-> <<>>]
    /\ probe = NoProbe

\* Build 2 makes the call that build 1 made at the same position
Follows(b, call) ==
    \/ b = 1
    \/ /\ Len(log[2]) < Len(log[1])
       /\ log[1][Len(log[2]) + 1] = call

ReplaySetFontSize(b, size) ==
    /\ Follows(b, CallRec("set_font_size", size, <<>>))
    /\ CallSetFontSize(b, size)

ReplayAddText(b, text) ==
    /\ Follows(b, CallRec("add_text", 0, text))
    /\ CallAddText(b, text)

NextTwo ==
    \/ \E b \in DOMAIN gens : NewGenerator(b)
    \/ \E b \in DOMAIN gens, size \in Sizes : ReplaySetFontSize(b, size)
    \/ \E b \in DOMAIN gens, text \in Texts : ReplayAddText(b, text)

SpecTwo == InitTwo /\ [][NextTwo]_vars

----------------------------------------------------------------------------
(* Two builds of different documents on the same font file, each with its  *)
(* own calls, the steps of the two interleaved in any order; MaxOps bounds *)
(* the calls of both together.                                             *)

PairFonts == {BaseFont}

PairTexts == { <<65, 32, 66>>, <<66, 32, 66, 32, 66, 10, 90>> }   \* "A B", "B B B\nZ"

InitPair ==
    /\ fontFile \in {FontBytes(fp) : fp \in PairFonts}
    /\ gens = [b \in {1, 2} |-> NoObject]
    /\ log = [b \in {1, 2} |-> <<>>]
    /\ probe = NoProbe

PairBudget == Len(log[1]) + Len(log[2]) < MaxOps

NextPair ==
    \/ \E b \in DOMAIN gens : NewGenerator(b)
    \/ \E b \in DOMAIN gens, size \in Sizes : PairBudget /\ CallSetFontSize(b, size)
    \/ \E b \in DOMAIN gens, text \in PairTexts : PairBudget /\ CallAddText(b, text)
    \/ \E b \in DOMAIN gens : CallGetPdfBytes(b)

SpecPair == InitPair /\ [][NextPair]_vars

----------------------------------------------------------------------------
(* One build on fonts whose cmap table holds several encoding records, in  *)
(* different orders, or none that the reader selects.                      *)

\* Subtables that map 'A' and 'B' to glyph ids of their own
UniCmap ==
    [plat |-> 0, enc |-> 3, fmt |-> 4, len |-> 32,
     segs |-> <<[s |-> 65, e |-> 66, d |-> -61, ro |-> 0],
                [s |-> 65535, e |-> 65535, d |-> 1, ro |-> 0]>>,
     gia |-> <<>>]
Uni4Cmap == [UniCmap EXCEPT !.enc = 4, !.segs[1].d = -64]
MacCmap == [UniCmap EXCEPT !.plat = 1, !.enc = 0, !.segs[1].d = -63]
Win10Cmap == [UniCmap EXCEPT !.plat = 3, !.enc = 10, !.segs[1].d = -62]

\* Macintosh, Unicode, then Windows-Unicode
WinLastFont == [BaseFont EXCEPT !.pre = <<MacCmap, UniCmap>>]
\* Windows-Unicode, then Unicode
WinFirstFont == [BaseFont EXCEPT !.post = <<UniCmap>>]
\* Windows (3, 10) in format 4 before Windows (3, 1)
Win10FirstFont == [BaseFont EXCEPT !.pre = <<Win10Cmap>>]
\* Windows (3, 10) in format 12 before Windows (3, 1) in format 4
Win10Format12Font == [BaseFont EXCEPT !.pre = <<[Win10Cmap EXCEPT !.fmt = 12]>>]
\* Macintosh, Unicode (0, 3), Macintosh
UnicodeOnlyFont == [BaseFont EXCEPT !.cm = UniCmap, !.pre = <<MacCmap>>,
                                    !.post = <<MacCmap>>]
\* Two Unicode records with different subtables
TwoUnicodeFont == [BaseFont EXCEPT !.cm = Uni4Cmap, !.pre = <<UniCmap>>]
\* Macintosh only: no record is selected
MacOnlyFont == [BaseFont EXCEPT !.cm = MacCmap]

CmapFonts ==
    {WinLastFont, WinFirstFont, Win10FirstFont, Win10Format12Font,
     UnicodeOnlyFont, TwoUnicodeFont, MacOnlyFont, Format6Font}

CmapTexts == { <<65, 32, 66>>, <<66, 10, 90>> }      \* "A B", "B\nZ"

InitCmap ==
    /\ fontFile \in {FontBytes(fp) : fp \in CmapFonts}
    /\ gens = [b \in {1} |-> NoObject]
    /\ log = [b \in {1} |-> <<>>]
    /\ probe = NoProbe

NextCmap ==
    \/ \E b \in DOMAIN gens : NewGenerator(b)
    \/ \E b \in DOMAIN gens, size \in Sizes : CallSetFontSize(b, size)
    \/ \E b \in DOMAIN gens, text \in CmapTexts : CallAddText(b, text)
    \/ \E b \in DOMAIN gens : CallGetPdfBytes(b)

SpecCmap == InitCmap /\ [][NextCmap]_vars

----------------------------------------------------------------------------
(* One build on fonts that differ in the unitsPerEm of their head table.   *)

\* The head table carries unitsPerEm = 0
ZeroUpemFont == [BaseFont EXCEPT !.upem = 0]
\* The head table carries unitsPerEm = 1
OneUpemFont == [BaseFont EXCEPT !.upem = 1]

UpemFonts == {BaseFont, OneUpemFont, ZeroUpemFont}

InitUpem ==
    /\ fontFile \in {FontBytes(fp) : fp \in UpemFonts}
    /\ gens = [b \in {1} |-> NoObject]
    /\ log = [b \in {1} |-> <<>>]
    /\ probe = NoProbe

NextUpem ==
    \/ \E b \in DOMAIN gens : NewGenerator(b)
    \/ \E b \in DOMAIN gens, size \in Sizes : CallSetFontSize(b, size)
    \/ \E b \in DOMAIN gens, text \in CmapTexts \cup {<<>>} : CallAddText(b, text)
    \/ \E b \in DOMAIN gens : CallGetPdfBytes(b)

SpecUpem == InitUpem /\ [][NextUpem]_vars

----------------------------------------------------------------------------
(* One build again, on fonts and texts chosen for the text that is read    *)
(* back from the document: a font in which two characters share a glyph,   *)
(* a font and a word with more glyphs than one bfchar group holds, a line  *)
(* with two spaces in a row, and the size 14 of the document's heading.    *)

\* The characters 256 .. 256 + chunk_size map to the glyphs 56 .. 56 + chunk_size
WideFont ==
    [BaseFont EXCEPT !.cm.len = 52,
                     !.cm.segs = <<[s |-> 32, e |-> 32, d |-> -29, ro |-> 0],
                                   [s |-> 65, e |-> 66, d |-> 0, ro |-> 6],
                                   [s |-> 256, e |-> 256 + chunk_size, d |-> -200, ro |-> 0],
                                   [s |-> 65535, e |-> 65535, d |-> 1, ro |-> 0]>>]

\* One word of chunk_size + 1 different characters
LongWord == [k \in 1..(chunk_size + 1) |-> 255 + k]

SampleFonts == {BaseFont, AliasFont, WideFont}

SampleSizes == {14, 256}

SampleTexts ==
    { <<65, 65>>,                             \* "AA"
      <<65, 32, 65, 32, 32, 66>>,             \* "A A  B"
      LongWord }

InitSample ==
    /\ fontFile \in {FontBytes(fp) : fp \in SampleFonts}
    /\ gens = [b \in {1} |-> NoObject]
    /\ log = [b \in {1} |-> <<>>]
    /\ probe = NoProbe

NextSample ==
    \/ \E b \in DOMAIN gens : NewGenerator(b)
    \/ \E b \in DOMAIN gens, size \in SampleSizes : CallSetFontSize(b, size)
    \/ \E b \in DOMAIN gens, text \in SampleTexts : CallAddText(b, text)
    \/ \E b \in DOMAIN gens : CallGetPdfBytes(b)

SpecSample == InitSample /\ [][NextSample]_vars

----------------------------------------------------------------------------
(* Reading a returned buffer back *)

\* The generator of build b returned a buffer from its first get_pdf_bytes
Returned(b) ==
    /\ gens[b].st = "ready"
    /\ gens[b].ngets = 1
    /\ gens[b].err = ""

\* The byte offset at which chunk i of the buffer begins
OffsetAt(buf, i) == SumSeq([j \in 1..(i - 1) |-> buf[j].len])

\* The places of the chunks of a kind, and those chunks in buffer order
Places(buf, kind) == {i \in 1..Len(buf) : buf[i].k = kind}
Chunks(buf, kind) == SelectSeq(buf, LAMBDA c : c.k = kind)

----------------------------------------------------------------------------
(* C1: after any sequence of set_font_size / add_text calls and one        *)
(* get_pdf_bytes call with the font loaded, the N-th in-use xref entry     *)
(* holds the byte offset at which "N 0 obj" begins in the returned buffer, *)
(* for every N in 1..obj_count, and the number after startxref is the byte *)
(* offset of the xref keyword.                                             *)
C1_XrefOffsets ==
    \A b \in DOMAIN gens :
        Returned(b) /\ gens[b].font_loaded =>
            LET g == gens[b]
                buf == g.buffer
                entries == Chunks(buf, "xrefentry")
            IN /\ Len(entries) = g.obj_count
               /\ \A N \in 1..g.obj_count :
                     \E i \in Places(buf, "obj") :
                         /\ buf[i].n = N
                         /\ \A j \in Places(buf, "obj") : buf[j].n = N => j = i
                         /\ entries[N].n = OffsetAt(buf, i)
               /\ Cardinality(Places(buf, "xref")) = 1
               /\ Cardinality(Places(buf, "startxrefvalue")) = 1
               /\ \A x \in Places(buf, "xref"), v \in Places(buf, "startxrefvalue") :
                     /\ buf[v - 1].k = "startxref"
                     /\ buf[v].n = OffsetAt(buf, x)

\* A two-page document with text on both pages was returned
C1_Witness ==
    \E b \in DOMAIN gens :
        /\ Returned(b) /\ gens[b].font_loaded
        /\ Len(gens[b].pages_content) = 2
        /\ gens[b].obj_count = 11

----------------------------------------------------------------------------
\* The place of the chunk "N 0 obj" and the kind of the object it starts:
\* the kind of its body, which for a stream follows the stream header
ObjPlace(buf, N) == CHOOSE i \in Places(buf, "obj") : buf[i].n = N
ObjBody(buf, N) ==
    LET i == ObjPlace(buf, N)
    IN IF buf[i + 1].k = "streamhdr" THEN buf[i + 2] ELSE buf[i + 1]
ObjKind(buf, N) == ObjBody(buf, N).k

\* The kind of object each key of a dictionary is meant to name
IntendedKind(key) ==
    CASE key = "Pages" -> "Pages"
      [] key = "Root" -> "Catalog"
      [] key = "Kids" -> "Page"
      [] key = "Parent" -> "Pages"
      [] key = "DescendantFonts" -> "CIDFontType2"
      [] key = "ToUnicode" -> "ToUnicode"
      [] key = "FontDescriptor" -> "FontDescriptor"
      [] key = "FontFile2" -> "FontFile2"
      [] key = "Contents" -> "Contents"
      [] key = "F1" -> "Type0"

\* The kind of object number N of a document of P pages
ExpectedKind(N, P) ==
    CASE N = 1 -> "Catalog"
      [] N = 2 -> "Pages"
      [] N = 3 -> "Type0"
      [] N = 4 -> "CIDFontType2"
      [] N = 5 -> "FontDescriptor"
      [] N = 6 -> "ToUnicode"
      [] N = 7 -> "FontFile2"
      [] N > 7 /\ N <= 7 + P -> "Page"
      [] OTHER -> "Contents"

(* C2: a document of P pages is written as exactly 7 + 2P objects numbered *)
(* 1..7+2P in order (Catalog, Pages, Type0, CIDFontType2, FontDescriptor,  *)
(* ToUnicode, FontFile2, P Page objects, P content streams); the xref      *)
(* count and the trailer /Size are 8 + 2P; every reference "k 0 R" names   *)
(* an existing object of the kind its key calls for; the i-th Kids entry   *)
(* is the i-th Page object, whose /Contents names the object holding the   *)
(* i-th page's content stream.                                             *)
C2_ObjectGraph ==
    \A b \in DOMAIN gens :
        Returned(b) /\ gens[b].font_loaded =>
            LET g == gens[b]
                buf == g.buffer
                P == Len(g.pages_content)
                objs == Chunks(buf, "obj")
            IN /\ Len(objs) = 7 + 2 * P
               /\ \A N \in 1..Len(objs) :
                     objs[N].n = N /\ ObjKind(buf, N) = ExpectedKind(N, P)
               /\ \A i \in Places(buf, "xrefcount") \cup Places(buf, "trailerdict") :
                     buf[i].n = 8 + 2 * P
               /\ Places(buf, "xrefcount") # {} /\ Places(buf, "trailerdict") # {}
               /\ \A i \in 1..Len(buf) : \A r \in 1..Len(buf[i].refs) :
                     /\ buf[i].refs[r][2] \in 1..(7 + 2 * P)
                     /\ ObjKind(buf, buf[i].refs[r][2]) = IntendedKind(buf[i].refs[r][1])
               /\ LET kids == ObjBody(buf, pages_root_id).refs
                  IN /\ Len(kids) = P
                     /\ \A i \in 1..P :
                           /\ kids[i] = <<"Kids", 7 + i>>
                           /\ \E r \in 1..Len(ObjBody(buf, 7 + i).refs) :
                                 LET ref == ObjBody(buf, 7 + i).refs[r]
                                 IN /\ ref[1] = "Contents"
                                    /\ ObjBody(buf, ref[2]).data = g.pages_content[i]

\* A returned document of three pages whose pages differ
C2_Witness ==
    \E b \in DOMAIN gens :
        /\ Returned(b) /\ gens[b].font_loaded
        /\ Len(gens[b].pages_content) = 3
        /\ gens[b].pages_content[1] # gens[b].pages_content[2]
        /\ gens[b].pages_content[2] # gens[b].pages_content[3]

----------------------------------------------------------------------------
(* Reading content streams back *)

\* The glyph ids of a hex string of 4 digits per glyph
GidsOfHex(hex) ==
    [k \in 1..(Len(hex) \div 4) |->
        hex[4 * k - 3] * 4096 + hex[4 * k - 2] * 256 + hex[4 * k - 1] * 16 + hex[4 * k]]

\* The content streams of a generator in page order: the sealed pages and,
\* until get_pdf_bytes seals it, the open one
Streams(g) ==
    IF g.ngets = 0 THEN Append(g.pages_content, g.current_content)
    ELSE g.pages_content

\* The text-show instructions of all streams, in order
ShowInstrs(g) ==
    Concat([p \in 1..Len(Streams(g)) |->
              SelectSeq(Streams(g)[p], LAMBDA i : i.op = "Tj")])

\* Per glyph written, in order: <<glyph id, character it was written for>>
Written(g) ==
    Concat([l \in 1..Len(ShowInstrs(g)) |->
              [k \in 1..Len(ShowInstrs(g)[l].chars) |->
                  <<GidsOfHex(ShowInstrs(g)[l].hex)[k], ShowInstrs(g)[l].chars[k]>>]])

\* The characters given to add_text on build b, the texts joined by newlines
InputChars(b) ==
    Concat([k \in 1..Len(log[b]) |->
              IF log[b][k].op = "add_text" THEN log[b][k].text \o <<Newline>>
              ELSE <<>>])

IsInk(c) == c # Space /\ c # Newline
Count(s, Test(_)) == Len(SelectSeq(s, Test))

\* The numbers of non-space glyphs written up to the end of each line
LineEnds(g) ==
    LET ls == ShowInstrs(g)
        ink(l) == Count(ls[l].chars, IsInk)
    IN {SumSeq([j \in 1..l |-> ink(j)]) : l \in 1..Len(ls)}

\* The numbers of non-space characters of the input up to the end of each word
WordEnds(s) ==
    {Count(SubSeq(s, 1, k), IsInk) :
        k \in {j \in 1..Len(s) : IsInk(s[j]) /\ (j = Len(s) \/ ~IsInk(s[j + 1]))}}

(* C3: with the font loaded, the glyphs of the text-show instructions of   *)
(* all pages in order, without the glyphs written for spaces, are the      *)
(* glyph ids of the input characters other than spaces and newlines, in    *)
(* input order; every line ends at the end of a word, so a word's glyphs   *)
(* lie in one instruction; and each wrap removed exactly one space glyph.  *)
C3_NoGlyphLost ==
    \A b \in DOMAIN gens :
        gens[b].st = "ready" /\ gens[b].font_loaded /\ gens[b].ngets <= 1 =>
            LET g == gens[b]
                out == Written(g)
                inp == InputChars(b)
                outInk == SelectSeq(out, LAMBDA w : IsInk(w[2]))
                inInk == SelectSeq(inp, IsInk)
            IN /\ \A l \in 1..Len(ShowInstrs(g)) :
                     Len(ShowInstrs(g)[l].hex) = 4 * Len(ShowInstrs(g)[l].chars)
               /\ \A k \in 1..Len(out) : out[k][1] = GetGid(g.font, out[k][2])
               /\ [k \in 1..Len(outInk) |-> outInk[k][1]]
                     = [k \in 1..Len(inInk) |-> GetGid(g.font, inInk[k])]
               /\ LineEnds(g) \subseteq WordEnds(inp)
               /\ Count(out, LAMBDA w : w[2] = Space)
                     = Count(inp, LAMBDA c : c = Space) - g.wraps

\* Two wraps happened, a page was sealed, and a line holds two words
C3_Witness ==
    \E b \in DOMAIN gens :
        /\ gens[b].font_loaded /\ gens[b].ngets = 0
        /\ gens[b].wraps >= 2
        /\ Len(gens[b].pages_content) >= 1
        /\ \E l \in 1..Len(ShowInstrs(gens[b])) :
              LET cs == ShowInstrs(gens[b])[l].chars
              IN \E k \in 2..(Len(cs) - 1) : cs[k] = Space /\ IsInk(cs[1]) /\ IsInk(cs[Len(cs)])

----------------------------------------------------------------------------
(* C4: if the font file cannot be parsed, constructing the generator       *)
(* surfaces a parse error to the caller instead of leaving a constructed   *)
(* generator that has no font.                                             *)
C4_ParseErrorSurfaces ==
    \A b \in DOMAIN gens :
        ~Parse(fontFile).ok => gens[b].st # "ready"

----------------------------------------------------------------------------
\* The glyph ids covered by a run <<first, widths>> of the W array
RunGids(run) == run[1]..(run[1] + Len(run[2]) - 1)

(* C5: in the /W array every glyph id of used_gids lies in exactly one run *)
(* "first [w0 w1 ...]" at index gid - first, with the width get_width(gid) *)
(* in font units; the runs are the maximal blocks of consecutive used      *)
(* glyph ids, in ascending order; no other glyph id has an entry.          *)
C5_WidthArray ==
    \A b \in DOMAIN gens :
        Returned(b) /\ gens[b].font_loaded =>
            LET g == gens[b]
                w == ObjBody(g.buffer, cid_font_id).data
            IN /\ \A gid \in g.used_gids :
                     Cardinality({r \in 1..Len(w) : gid \in RunGids(w[r])}) = 1
               /\ \A r \in 1..Len(w) :
                     /\ w[r][2] # <<>>
                     /\ RunGids(w[r]) \subseteq g.used_gids
                     /\ \A gid \in RunGids(w[r]) :
                           w[r][2][gid - w[r][1] + 1] = GetWidth(g.font, gid)
                     /\ r < Len(w) => w[r][1] + Len(w[r][2]) < w[r + 1][1]

\* Glyphs 0, 3, 5 and 6 were used, 5 and 6 sharing a run, with widths that
\* come from the fallback of get_width
C5_Witness ==
    \E b \in DOMAIN gens :
        /\ Returned(b) /\ gens[b].font_loaded
        /\ gens[b].used_gids = {0, 3, 5, 6}
        /\ Len(gens[b].font.advance_widths) = 4
        /\ ObjBody(gens[b].buffer, cid_font_id).data
              = <<<<0, <<1229>>>>, <<3, <<652>>>>, <<5, <<652, 652>>>>>>

----------------------------------------------------------------------------
(* C6: a generator on which add_text was never called (set_font_size any   *)
(* number of times) serializes to one Page object, /Count 1, one content   *)
(* stream holding only BT, font selections and ET, and correct xref        *)
(* offsets for all 9 objects.                                              *)
C6_EmptyDocument ==
    \A b \in DOMAIN gens :
        (/\ Returned(b) /\ gens[b].font_loaded
         /\ \A k \in 1..Len(log[b]) : log[b][k].op # "add_text") =>
            LET g == gens[b]
                buf == g.buffer
                streams == Chunks(buf, "Contents")
                entries == Chunks(buf, "xrefentry")
            IN /\ Len(Chunks(buf, "Page")) = 1
               /\ ObjBody(buf, pages_root_id).n = 1
               /\ Len(streams) = 1
               /\ LET c == streams[1].data
                  IN /\ Len(c) >= 2
                     /\ c[1].op = "BT"
                     /\ c[Len(c)].op = "ET"
                     /\ \A k \in 2..(Len(c) - 1) : c[k].op = "Tf"
               /\ g.obj_count = 9 /\ Len(entries) = 9
               /\ \A N \in 1..9 : entries[N].n = OffsetAt(buf, ObjPlace(buf, N))

\* A document returned after set_font_size calls only
C6_Witness ==
    \E b \in DOMAIN gens :
        /\ Returned(b) /\ gens[b].font_loaded
        /\ Len(log[b]) >= 2
        /\ \A k \in 1..Len(log[b]) : log[b][k].op = "set_font_size"

----------------------------------------------------------------------------
\* The size in force at instruction k of a stream: that of the last BT or Tf
\* before it
SizeAt(stream, k) ==
    LET j == CHOOSE j \in 1..(k - 1) :
                 /\ stream[j].op \in {"BT", "Tf"}
                 /\ \A h \in (j + 1)..(k - 1) : stream[h].op \notin {"BT", "Tf"}
    IN stream[j].size

\* Line k of a stream is wider than page_width - 2 * margin_left at its size
TooWide(font, stream, k) ==
    LET gids == GidsOfHex(stream[k].hex)
    IN SumSeq([h \in 1..Len(gids) |-> GetWidth(font, gids[h]) * SizeAt(stream, k)])
          > (page_width - 2 * margin_left) * font.units_per_em

(* C7: an emitted line is wider than the available width only if it is a   *)
(* single word, with at most one leading space glyph: a line on which a    *)
(* space follows another glyph (two or more words) fits.                   *)
C7_OnlySingleWordOverflows ==
    \A b \in DOMAIN gens :
        gens[b].st = "ready" /\ gens[b].font_loaded /\ gens[b].ngets <= 1 =>
            \A p \in 1..Len(Streams(gens[b])) :
                LET stream == Streams(gens[b])[p]
                IN \A k \in 1..Len(stream) :
                      stream[k].op = "Tj" /\ TooWide(gens[b].font, stream, k) =>
                          \A h \in 2..Len(stream[k].chars) : stream[k].chars[h] # Space

\* A too wide single word was emitted, and a two-word line that fills the
\* available width exactly
C7_Witness ==
    \E b \in DOMAIN gens :
        /\ gens[b].font_loaded /\ gens[b].ngets = 0
        /\ gens[b].font.units_per_em = 2048
        /\ LET stream == gens[b].current_content
           IN /\ \E k \in 1..Len(stream) :
                    /\ stream[k].op = "Tj" /\ TooWide(gens[b].font, stream, k)
                    /\ stream[k].chars = <<65, 65, 65>>
              /\ \E k \in 1..Len(stream) :
                    /\ stream[k].op = "Tj" /\ SizeAt(stream, k) = 256
                    /\ stream[k].chars = <<65, 32, 65>>
                    /\ GidsOfHex(stream[k].hex) = <<5, 3, 5>>
                    /\ GetWidth(gens[b].font, 5) = 1722

----------------------------------------------------------------------------
(* C8: get_gid returns 0 for every codepoint absent from the cmap, whose   *)
(* width is then get_width(0); get_width on a glyph id >= 0 is never       *)
(* negative and is advance_widths[gid] inside the recorded range, else the *)
(* last recorded width, else 1000 when no width was recorded.              *)
C8_LookupsTotal ==
    LET aw == probe.font.advance_widths
    IN /\ (probe.fn = "get_gid" /\ probe.arg \notin DOMAIN probe.font.cmap) =>
              /\ probe.result = 0
              /\ GetWidth(probe.font, probe.result) = GetWidth(probe.font, 0)
       /\ probe.fn = "get_width" =>
              /\ probe.result >= 0
              /\ probe.arg < Len(aw) => probe.result = aw[probe.arg + 1]
              /\ (probe.arg >= Len(aw) /\ aw # <<>>) => probe.result = aw[Len(aw)]
              /\ aw = <<>> => probe.result = 1000

\* get_width answered for a glyph beyond the 4 recorded widths
C8_Witness ==
    /\ probe.st = "loaded" /\ probe.fn = "get_width"
    /\ Len(probe.font.advance_widths) = 4
    /\ probe.arg = 6 /\ probe.result = 652

----------------------------------------------------------------------------
----------------------------------------------------------------------------
(* C10: a read during font parsing that falls outside the file or outside  *)
(* the table being read makes the parse fail: a TTFFont object exists only *)
(* if every read stayed inside the file and inside its table.              *)
C10_OutOfBoundsReadFails ==
    probe.st = "loaded" =>
        \A r \in probe.font.reads :
            /\ r[2] <= Len(fontFile)
            /\ r[3] <= r[1] /\ r[2] <= r[4]

----------------------------------------------------------------------------
\* The sfnt versions of a TrueType / OpenType container: 0x00010000, "true",
\* "OTTO"
SfntVersions == {<<0, 1, 0, 0>>, <<116, 114, 117, 101>>, <<79, 84, 84, 79>>}

(* C11: parsing fails whenever the bytes are not a valid sfnt container: a *)
(* font object exists only if the file starts with an sfnt version, its    *)
(* table directory is complete, and the tables hmtx and cmap are present.  *)
C11_InvalidContainerFails ==
    probe.st = "loaded" =>
        /\ Len(fontFile) >= 12
        /\ SubSeq(fontFile, 1, 4) \in SfntVersions
        /\ Len(fontFile) >= 12 + 16 * U16(fontFile, 4)
        /\ Has(probe.font.tables, TagHmtx)
        /\ Has(probe.font.tables, TagCmap)

----------------------------------------------------------------------------
\* The number written by a string of hex digits
HexNum(hex) == SumSeq([k \in 1..Len(hex) |-> hex[k] * 16 ^ (Len(hex) - k)])

\* The bfchar entries <<glyph hex, codepoint hex>> of a returned buffer
BfEntries(buf) ==
    Concat([k \in 1..Len(ObjBody(buf, to_unicode_id).data) |->
              ObjBody(buf, to_unicode_id).data[k].entries])

\* The codepoints the bfchar entries give for a glyph id
Decoded(buf, gid) ==
    {HexNum(BfEntries(buf)[k][2]) :
        k \in {j \in 1..Len(BfEntries(buf)) : HexNum(BfEntries(buf)[j][1]) = gid}}

(* C12: when every codepoint of the input is in the font's cmap, mapping   *)
(* each emitted glyph id through the bfchar entries of the produced PDF    *)
(* gives back the codepoint of the character it was written for.           *)
C12_ToUnicodeRoundTrip ==
    \A b \in DOMAIN gens :
        (/\ Returned(b) /\ gens[b].font_loaded
         /\ \A k \in 1..Len(InputChars(b)) :
               InputChars(b)[k] # Newline =>
                   InputChars(b)[k] \in DOMAIN gens[b].font.cmap) =>
            \A k \in 1..Len(Written(gens[b])) :
                Decoded(gens[b].buffer, Written(gens[b])[k][1])
                    = {Written(gens[b])[k][2]}

----------------------------------------------------------------------------
(* C13: the first line written to a fresh document is placed at            *)
(* x = margin_left (50), y = page_height - margin_top (742); every line is *)
(* one hex string of 4 uppercase hex digits per glyph id, in order; with   *)
(* 'A' mapped to glyph 5, add_text("AA") at size 10 emits exactly the line *)
(* "1 0 0 1 50 742 Tm <00050005> Tj".                                      *)
C13_FirstLineAndHex ==
    \A b \in DOMAIN gens :
        gens[b].st = "ready" /\ gens[b].font_loaded /\ gens[b].ngets <= 1 =>
            LET g == gens[b]
                shows == ShowInstrs(g)
            IN /\ shows # <<>> =>
                     /\ shows[1].x = 50 /\ shows[1].x = margin_left
                     /\ shows[1].y = 742 /\ shows[1].y = page_height - margin_top
               /\ \A l \in 1..Len(shows) :
                     /\ Len(shows[l].hex) = 4 * Len(shows[l].chars)
                     /\ \A k \in 1..Len(shows[l].hex) :
                           HexText(shows[l].hex)[k] \in 48..57 \cup 65..70
                     /\ \A k \in 1..Len(shows[l].chars) :
                           HexNum(SubSeq(shows[l].hex, 4 * k - 3, 4 * k))
                              = GetGid(g.font, shows[l].chars[k])
               /\ (/\ log[b] = <<CallRec("add_text", 0, <<65, 65>>)>>
                   /\ GetGid(g.font, 65) = 5) =>
                     /\ Len(shows) = 1
                     /\ shows[1].x = 50 /\ shows[1].y = 742
                     /\ HexText(shows[1].hex) = <<48, 48, 48, 53, 48, 48, 48, 53>>
                     /\ SizeAt(g.current_content, 2) = 10

\* add_text("AA") was the only call on a font that maps 'A' to glyph 5
C13_Witness ==
    \E b \in DOMAIN gens :
        /\ gens[b].st = "ready" /\ gens[b].font_loaded /\ gens[b].ngets = 0
        /\ log[b] = <<CallRec("add_text", 0, <<65, 65>>)>>
        /\ GetGid(gens[b].font, 65) = 5
        /\ Len(gens[b].current_content) = 2
        /\ gens[b].current_content[2].op = "Tj"

----------------------------------------------------------------------------
\* The places of the text-show instructions of a stream, in order
ShowPlaces(stream) == Sorted({k \in 1..Len(stream) : stream[k].op = "Tj"})

(* C14: every emitted text-positioning instruction has                     *)
(* margin_top <= y <= page_height - margin_top (50 <= y <= 742), the first *)
(* line of every page is at y = page_height - margin_top, and consecutive  *)
(* lines of one page differ in y by the line_height in force when the      *)
(* earlier line was written.                                               *)
C14_LinePositions ==
    \A b \in DOMAIN gens :
        gens[b].st = "ready" /\ gens[b].font_loaded /\ gens[b].ngets <= 1 =>
            \A p \in 1..Len(Streams(gens[b])) :
                LET stream == Streams(gens[b])[p]
                    at == ShowPlaces(stream)
                IN /\ \A j \in 1..Len(at) :
                         /\ stream[at[j]].y >= 50 /\ stream[at[j]].y >= margin_top
                         /\ stream[at[j]].y <= 742
                         /\ stream[at[j]].y <= page_height - margin_top
                   /\ at # <<>> => stream[at[1]].y = page_height - margin_top
                   /\ \A j \in 1..(Len(at) - 1) :
                         stream[at[j]].y - stream[at[j + 1]].y
                            = LineHeightOf(SizeAt(stream, at[j]))

\* A page on which the line height changed between two lines, after a page
\* break
C14_Witness ==
    \E b \in DOMAIN gens :
        /\ gens[b].font_loaded /\ gens[b].ngets = 0
        /\ Len(gens[b].pages_content) >= 1
        /\ LET stream == gens[b].pages_content[1]
               at == ShowPlaces(stream)
           IN /\ Len(at) >= 3
              /\ stream[at[1]].y - stream[at[2]].y = 12
              /\ stream[at[2]].y - stream[at[3]].y = 307

----------------------------------------------------------------------------
\* cursorY after a line was written: its y less the line height of its size
CursorAfter(show) == show.y - LineHeightOf(show.size)

\* The text-show instructions at or after which a page break was due: those
\* written with the cursor left below margin_top by the line before
BreakLines(g) ==
    {l \in 2..Len(ShowInstrs(g)) : CursorAfter(ShowInstrs(g)[l - 1]) < margin_top}

(* C15: a page is started exactly when a non-empty line is written while   *)
(* cursorY < margin_top: the lines of one page follow each other with the  *)
(* cursor at or above margin_top, every page after the first starts with a *)
(* line written with the cursor below margin_top and so holds at least one *)
(* text-show instruction, and the page count is 1 plus the number of such  *)
(* lines.                                                                  *)
C15_ReactivePageBreaks ==
    \A b \in DOMAIN gens :
        gens[b].st = "ready" /\ gens[b].font_loaded /\ gens[b].ngets <= 1 =>
            LET g == gens[b]
                streams == Streams(g)
                last(p) == streams[p][ShowPlaces(streams[p])[Len(ShowPlaces(streams[p]))]]
            IN /\ Len(streams) = 1 + Cardinality(BreakLines(g))
               /\ \A p \in 1..Len(streams) :
                     LET stream == streams[p]
                         at == ShowPlaces(stream)
                     IN /\ \A j \in 2..Len(at) :
                              CursorAfter(stream[at[j - 1]]) >= margin_top
                        /\ p > 1 =>
                              /\ at # <<>>
                              /\ ShowPlaces(streams[p - 1]) # <<>>
                              /\ CursorAfter(last(p - 1)) < margin_top

\* After a page break set_font_size was called and did not start a page
C15_Witness ==
    \E b \in DOMAIN gens :
        /\ gens[b].font_loaded /\ gens[b].ngets = 0
        /\ Len(gens[b].pages_content) = 1
        /\ ShowPlaces(gens[b].current_content) # <<>>
        /\ log[b] # <<>>
        /\ log[b][Len(log[b])].op = "set_font_size"
        /\ gens[b].y >= margin_top

----------------------------------------------------------------------------
\* The places of the font selections of a stream (BT opens the stream with
\* one)
FontSelections(stream) ==
    {j \in 1..Len(stream) : stream[j].op \in {"BT", "Tf"}}

(* C16: the last font selection of the open content stream carries the     *)
(* current font_size, and every text-show instruction is preceded in its   *)
(* own page stream by a font selection whose size is the one the line was  *)
(* measured with.                                                          *)
C16_FontSelectionCurrent ==
    \A b \in DOMAIN gens :
        gens[b].st = "ready" =>
            LET g == gens[b]
                cc == g.current_content
            IN /\ FontSelections(cc) # {}
               /\ SizeAt(cc, Len(cc) + 1) = g.font_size
               /\ g.ngets <= 1 =>
                     \A p \in 1..Len(Streams(g)) :
                         LET stream == Streams(g)[p]
                         IN \A k \in 1..Len(stream) :
                                stream[k].op = "Tj" =>
                                    /\ \E j \in FontSelections(stream) : j < k
                                    /\ SizeAt(stream, k) = stream[k].size

\* A second page opened at a size chosen by set_font_size, holding a line,
\* and a first page with a line after a Tf instruction
C16_Witness ==
    \E b \in DOMAIN gens :
        /\ gens[b].st = "ready" /\ gens[b].ngets = 0
        /\ Len(gens[b].pages_content) >= 1
        /\ gens[b].current_content[1].op = "BT"
        /\ gens[b].current_content[1].size # 10
        /\ ShowPlaces(gens[b].current_content) # <<>>
        /\ \E j, k \in 1..Len(gens[b].pages_content[1]) :
               /\ j < k
               /\ gens[b].pages_content[1][j].op = "Tf"
               /\ gens[b].pages_content[1][k].op = "Tj"

----------------------------------------------------------------------------
(* C17: no emitted line that follows a wrap within its literal line begins *)
(* with a space: the wrapping word is stripped of its leading space.       *)
C17_NoLeadingSpaceAfterWrap ==
    \A b \in DOMAIN gens :
        gens[b].st = "ready" /\ gens[b].font_loaded /\ gens[b].ngets <= 1 =>
            \A l \in 1..Len(ShowInstrs(gens[b])) :
                LET show == ShowInstrs(gens[b])[l]
                IN show.wrapped =>
                       ~ (/\ show.chars[1] = Space
                          /\ HexNum(SubSeq(show.hex, 1, 4))
                                = GetGid(gens[b].font, Space))

----------------------------------------------------------------------------
(* C18: line_height is font_size * 1.2 rounded to the nearest integer      *)
(* (12 for the initial font_size 10); 1.2 * size is never half way between *)
(* two integers, so the nearest one is (12 * size + 5) \div 10.            *)
C18_LineHeightRounded ==
    \A b \in DOMAIN gens :
        gens[b].st = "ready" =>
            /\ gens[b].font_size >= 1
            /\ gens[b].line_height = (12 * gens[b].font_size + 5) \div 10
            /\ log[b] = <<>> =>
                   gens[b].font_size = 10 /\ gens[b].line_height = 12

----------------------------------------------------------------------------
\* The glyph ids of the text-show instructions of a sequence of streams
ShownGids(streams) ==
    UNION {UNION {Range(GidsOfHex(streams[p][k].hex)) :
                     k \in {h \in 1..Len(streams[p]) : streams[p][h].op = "Tj"}} :
              p \in 1..Len(streams)}

(* C19: in every reachable state used_gids contains glyph id 0 and every   *)
(* glyph id of every text-show instruction of every page and of the open   *)
(* stream, and no step takes a glyph id out of used_gids.                  *)
C19_UsedGids ==
    /\ [] (\A b \in DOMAIN gens :
              gens[b].st = "ready" =>
                  /\ 0 \in gens[b].used_gids
                  /\ ShownGids(Append(gens[b].pages_content,
                                      gens[b].current_content))
                        \subseteq gens[b].used_gids)
    /\ [][\A b \in DOMAIN gens :
              gens[b].used_gids \subseteq gens'[b].used_gids]_vars

\* used_gids holds the space glyph although no written line holds it: the
\* only space of the text was stripped by a wrap
C19_Witness ==
    \E b \in DOMAIN gens :
        /\ gens[b].st = "ready" /\ gens[b].font_loaded
        /\ GetGid(gens[b].font, Space) = 3
        /\ {3, 5, 6} \subseteq gens[b].used_gids
        /\ LET shown == ShownGids(Append(gens[b].pages_content,
                                         gens[b].current_content))
           IN 3 \notin shown /\ {5, 6} \subseteq shown

----------------------------------------------------------------------------
(* C20: the ToUnicode stream holds exactly one bfchar entry per glyph id   *)
(* of used_gids and none for another glyph id; the entries come in groups  *)
(* of at most 100, the count in each group's beginbfchar line is the       *)
(* number of its entries, and each entry maps the 4-hex-digit glyph id to  *)
(* gid_to_unicode[gid] or, when the glyph has no known codepoint, as is    *)
(* always the case for glyph 0, to 0000.                                   *)
C20_ToUnicodeEntries ==
    \A b \in DOMAIN gens :
        Returned(b) /\ gens[b].font_loaded =>
            LET g == gens[b]
                groups == ObjBody(g.buffer, to_unicode_id).data
                entries == BfEntries(g.buffer)
            IN /\ {HexNum(entries[k][1]) : k \in 1..Len(entries)} = g.used_gids
               /\ Len(entries) = Cardinality(g.used_gids)
               /\ \A k \in 1..Len(groups) :
                     /\ groups[k].count = Len(groups[k].entries)
                     /\ Len(groups[k].entries) \in 1..100
               /\ 0 \notin DOMAIN g.font.gid_to_unicode
               /\ \A k \in 1..Len(entries) :
                     LET gid == HexNum(entries[k][1])
                     IN /\ Len(entries[k][1]) = 4
                        /\ Len(entries[k][2]) = 4
                        /\ HexNum(entries[k][2])
                              = IF gid \in DOMAIN g.font.gid_to_unicode
                                THEN g.font.gid_to_unicode[gid] ELSE 0
                        /\ gid = 0 => entries[k][2] = <<0, 0, 0, 0>>

\* More than 100 used glyphs: a full group followed by a second one, with
\* glyph 0 mapped to 0000 and glyph 56 to its codepoint 256
C20_Witness ==
    \E b \in DOMAIN gens :
        /\ Returned(b) /\ gens[b].font_loaded
        /\ LET groups == ObjBody(gens[b].buffer, to_unicode_id).data
           IN /\ Len(groups) = 2
              /\ groups[1].count = 100
              /\ groups[2].count >= 2
              /\ groups[1].entries[1] = <<Hex4(0), Hex4(0)>>
              /\ \E k \in 1..100 : groups[1].entries[k] = <<Hex4(56), Hex4(256)>>

----------------------------------------------------------------------------
\* The places in the order of parsing at which glyph id g was computed
ComputedAt(font, g) ==
    {k \in 1..Len(font.computed) : font.computed[k][2] = g}

\* The last codepoint, in the order of parsing, whose computed glyph id was g
LastCode(font, g) ==
    font.computed[CHOOSE k \in ComputedAt(font, g) :
                      \A j \in ComputedAt(font, g) : j <= k][1]

\* No two different codepoints were given the same nonzero glyph id
SingleCodepoints(font) ==
    \A j, k \in 1..Len(font.computed) :
        /\ font.computed[j][2] # 0
        /\ font.computed[j][2] = font.computed[k][2]
        => font.computed[j][1] = font.computed[k][1]

(* C21: after parsing, for every glyph id g of gid_to_unicode the stored   *)
(* codepoint c satisfies cmap[c] = g and is the last codepoint in parse    *)
(* order whose computed glyph id was g; when every glyph has a single      *)
(* codepoint, cmap[c] = g implies gid_to_unicode[g] = c.                   *)
C21_InverseMap ==
    probe.st = "loaded" =>
        LET font == probe.font
        IN /\ \A g \in DOMAIN font.gid_to_unicode :
                 LET c == font.gid_to_unicode[g]
                 IN /\ c \in DOMAIN font.cmap
                    /\ font.cmap[c] = g
                    /\ ComputedAt(font, g) # {}
                    /\ c = LastCode(font, g)
           /\ SingleCodepoints(font) =>
                 \A c \in DOMAIN font.cmap :
                     /\ font.cmap[c] \in DOMAIN font.gid_to_unicode
                     /\ font.gid_to_unicode[font.cmap[c]] = c

----------------------------------------------------------------------------
\* The complete font files with a format-4 subtable
Format4Fonts ==
    {BaseFont, ShortHmtxFont, NoHmtxFont, LongMetricsFont, ShortSubtableFont,
     AliasFont, OverlapFont, ZeroGlyphFont, NoHeadFont, NoHheaFont,
     NoHeadHheaFont}

\* The glyph id the segment records of cm give to codepoint c of segment i:
\* by idDelta when idRangeOffset is 0, else from the entry of the glyph-id
\* array that idRangeOffset points at (0 when it lies at or beyond the
\* subtable's length), idDelta added to a nonzero entry only
SegmentGid(cm, i, c) ==
    LET seg == cm.segs[i]
        n == Len(cm.segs)
        idx == seg.ro \div 2 - (n - i + 1) + (c - seg.s) + 1
        entry == IF 16 + 8 * n + 2 * (idx - 1) >= cm.len THEN 0 ELSE cm.gia[idx]
    IN IF seg.ro = 0 THEN (c + seg.d) % 65536
       ELSE IF entry # 0 THEN (entry + seg.d) % 65536
       ELSE 0

\* <<codepoint, glyph id>> for every codepoint of every segment before the
\* one that starts at 0xFFFF, in segment order and ascending codepoint
RECURSIVE SegmentGids(_, _)
SegmentGids(cm, i) ==
    IF i > Len(cm.segs) \/ cm.segs[i].s = 65535 THEN <<>>
    ELSE [k \in 1..(cm.segs[i].e - cm.segs[i].s + 1) |->
             <<cm.segs[i].s + k - 1, SegmentGid(cm, i, cm.segs[i].s + k - 1)>>]
            \o SegmentGids(cm, i + 1)

(* C22: the glyph id is (codepoint + idDelta) mod 65536 when idRangeOffset *)
(* is 0 and otherwise comes from the glyph-id array, idDelta added only to *)
(* a nonzero entry; a computed glyph id of 0 is never stored: no codepoint *)
(* maps to glyph 0, 0 is not a key of gid_to_unicode, and every codepoint  *)
(* keeps the last nonzero glyph id computed for it.                        *)
C22_ZeroNeverStored ==
    probe.st = "loaded" =>
        LET font == probe.font
            nonzero(c) == {k \in 1..Len(font.computed) :
                              /\ font.computed[k][1] = c
                              /\ font.computed[k][2] # 0}
        IN /\ \A fp \in Format4Fonts :
                 fontFile = FontBytes(fp) => font.computed = SegmentGids(fp.cm, 1)
           /\ \A c \in DOMAIN font.cmap : font.cmap[c] # 0
           /\ 0 \notin DOMAIN font.gid_to_unicode
           /\ DOMAIN font.cmap =
                 {font.computed[k][1] : k \in
                     {j \in 1..Len(font.computed) : font.computed[j][2] # 0}}
           /\ \A c \in DOMAIN font.cmap :
                 \E k \in nonzero(c) :
                     /\ \A j \in nonzero(c) : j <= k
                     /\ font.cmap[c] = font.computed[k][2]

\* The glyph-id array gave 0 for 'A', which stays unmapped although idDelta
\* is 1, and a later 0 for 'B' left its glyph 6 in place
C22_Witness ==
    /\ probe.st = "loaded"
    /\ probe.font.computed = <<<<32, 3>>, <<65, 0>>, <<66, 6>>, <<66, 0>>>>
    /\ probe.font.cmap = (32 :> 3) @@ (66 :> 6)
    /\ probe.font.gid_to_unicode = (3 :> 32) @@ (6 :> 66)

----------------------------------------------------------------------------
\* The encoding records of a font file, in the order of the cmap table
Records(fp) == fp.pre \o <<fp.cm>> \o fp.post

\* The font's maps were built from subtable cm alone, or left empty when cm
\* is not in format 4
BuiltFrom(font, cm) ==
    IF cm.fmt = 4
    THEN /\ font.computed = SegmentGids(cm, 1)
         /\ DOMAIN font.cmap # {}
    ELSE /\ font.computed = <<>>
         /\ DOMAIN font.cmap = {}

(* C23: the cmap is built from one subtable only: that of the first record *)
(* with platform 3 and encoding 1 or 10, wherever it stands, else that of  *)
(* a platform-0 record, else none; when none is selected or the selected   *)
(* subtable is not in format 4, the parse succeeds, cmap stays empty and   *)
(* every character of every add_text is written as glyph 0.                *)
C23_SubtableSelection ==
    \A b \in DOMAIN gens :
        gens[b].st = "ready" =>
            LET g == gens[b]
            IN /\ \A fp \in CmapFonts :
                     fontFile = FontBytes(fp) =>
                         LET recs == Records(fp)
                             win == {k \in 1..Len(recs) :
                                        recs[k].plat = 3 /\ recs[k].enc \in {1, 10}}
                             uni == {k \in 1..Len(recs) : recs[k].plat = 0}
                         IN /\ g.font_loaded
                            /\ win # {} =>
                                  \E k \in win :
                                      /\ \A j \in win : k <= j
                                      /\ BuiltFrom(g.font, recs[k])
                            /\ win = {} /\ uni # {} =>
                                  \E k \in uni : BuiltFrom(g.font, recs[k])
                            /\ win = {} /\ uni = {} =>
                                  /\ g.font.computed = <<>>
                                  /\ DOMAIN g.font.cmap = {}
               /\ g.font_loaded /\ DOMAIN g.font.cmap = {} =>
                     /\ g.used_gids = {0}
                     /\ ShownGids(Append(g.pages_content, g.current_content))
                           \subseteq {0}
                     /\ \A l \in 1..Len(ShowInstrs(g)) :
                           Len(ShowInstrs(g)[l].hex) = 4 * Len(ShowInstrs(g)[l].chars)

\* The Windows-Unicode record is the third one and its subtable gave the
\* glyphs of a written line
C23_Witness ==
    \E b \in DOMAIN gens :
        /\ fontFile = FontBytes(WinLastFont)
        /\ gens[b].font_loaded
        /\ gens[b].font.cmap = (32 :> 3) @@ (65 :> 5) @@ (66 :> 6)
        /\ 6 \in ShownGids(<<gens[b].current_content>>)

----------------------------------------------------------------------------
(* C24: a font whose directory lacks head and/or hhea still parses:        *)
(* without head units_per_em stays 1000 and bbox [0,0,0,0]; without hhea   *)
(* ascent, descent and num_metrics stay 0, no advance width is read and    *)
(* get_width returns 1000 for every glyph id.                              *)
C24_MissingHeadHhea ==
    \A fp \in {NoHeadFont, NoHheaFont, NoHeadHheaFont} :
        fontFile = FontBytes(fp) /\ probe.st # "none" =>
            LET font == probe.font
            IN /\ probe.st = "loaded"
               /\ "head" \notin Range(fp.tabs) =>
                     /\ font.units_per_em = 1000
                     /\ font.bbox = <<0, 0, 0, 0>>
               /\ "head" \in Range(fp.tabs) =>
                     /\ font.units_per_em = fp.upem
                     /\ font.bbox = fp.bbox
               /\ "hhea" \notin Range(fp.tabs) =>
                     /\ font.ascent = 0 /\ font.descent = 0
                     /\ font.num_metrics = 0
                     /\ font.advance_widths = <<>>
                     /\ \A r \in font.reads :
                           ~ (r[3] = font.tables[TagHmtx][1])
                     /\ \A gid \in 0..MaxGid : GetWidth(font, gid) = 1000
                     /\ probe.fn = "get_width" => probe.result = 1000
               /\ "hhea" \in Range(fp.tabs) =>
                     /\ font.ascent = fp.ascent /\ font.descent = fp.descent
                     /\ font.num_metrics = fp.nm

\* The file with neither table loaded and get_width(5) returned 1000
C24_Witness ==
    /\ fontFile = FontBytes(NoHeadHheaFont)
    /\ probe.st = "loaded"
    /\ probe.font.units_per_em = 1000
    /\ probe.font.num_metrics = 0
    /\ Len(probe.font.computed) = 3
    /\ probe.fn = "get_width" /\ probe.arg = 5 /\ probe.result = 1000

----------------------------------------------------------------------------
(* C25: add_text of the empty string, and of a text made only of newline   *)
(* characters, leaves the open content stream, the sealed pages, cursorY,  *)
(* font_size, line_height and used_gids unchanged.                         *)
C25_EmptyTextNoOp ==
    [][\A b \in DOMAIN gens :
          (/\ Len(log'[b]) = Len(log[b]) + 1
           /\ log'[b][Len(log'[b])].op = "add_text"
           /\ \A k \in 1..Len(log'[b][Len(log'[b])].text) :
                 log'[b][Len(log'[b])].text[k] = Newline) =>
              /\ gens'[b].current_content = gens[b].current_content
              /\ gens'[b].pages_content = gens[b].pages_content
              /\ gens'[b].y = gens[b].y
              /\ gens'[b].font_size = gens[b].font_size
              /\ gens'[b].line_height = gens[b].line_height
              /\ gens'[b].used_gids = gens[b].used_gids]_vars

\* add_text("\n") was the last call, made on a loaded font at 256 pt after
\* a line had been written
C25_Witness ==
    \E b \in DOMAIN gens :
        /\ gens[b].font_loaded
        /\ Len(log[b]) = 3
        /\ log[b][1] = CallRec("set_font_size", 256, <<>>)
        /\ log[b][2] = CallRec("add_text", 0, <<65, 32, 66>>)
        /\ log[b][3] = CallRec("add_text", 0, <<Newline>>)
        /\ gens[b].y = page_height - margin_top - 2 * LineHeightOf(256)
        /\ gens[b].err = ""

----------------------------------------------------------------------------
\* One recorded call made on a generator
ApplyCall(g, call) ==
    IF call.op = "set_font_size" THEN Raise(SetFontSize(g, call.size), "")
    ELSE AddText(g, call.text)

\* The calls of a log from the k-th on, made one after the other
RECURSIVE Replayed(_, _, _)
Replayed(g, calls, k) ==
    IF k > Len(calls) THEN g
    ELSE Replayed(ApplyCall(g, calls[k]), calls, k + 1)

\* n calls of get_pdf_bytes in a row
RECURSIVE Got(_, _)
Got(g, n) == IF n = 0 THEN g ELSE GetPdfBytes(Got(g, n - 1))

\* The generator of a build that runs alone: constructed on the font file,
\* given the calls, then asked n times for the bytes
Alone(data, calls, n) == Got(Replayed(Construct(NoObject, data), calls, 1), n)

(* C26: no generator operation changes a field of the font after          *)
(* construction, no step of one generator changes the other generator, and *)
(* with the steps of two builds interleaved in any order each generator    *)
(* holds, and returns, what it does when its build runs alone.             *)
C26_BuildsIndependent ==
    /\ [] (\A b \in DOMAIN gens :
              gens[b].st = "ready" =>
                  /\ gens[b] = Alone(fontFile, log[b], gens[b].ngets)
                  /\ gens[b].font = Parse(fontFile))
    /\ [][/\ \A b \in DOMAIN gens :
                gens[b].st = "ready" => gens'[b].font = gens[b].font
          /\ gens'[1] = gens[1] \/ gens'[2] = gens[2]]_vars

\* Both builds returned their bytes, for different calls: build 1 had shown
\* glyph 5 before build 2, which never shows it, was given its text
C26_Witness ==
    /\ Returned(1) /\ Returned(2)
    /\ gens[1].font_loaded
    /\ log[1] = <<CallRec("add_text", 0, <<65, 32, 66>>)>>
    /\ log[2] = <<CallRec("set_font_size", 256, <<>>),
                  CallRec("add_text", 0, <<66, 32, 66, 32, 66, 10, 90>>)>>
    /\ gens[1].buffer # gens[2].buffer
    /\ 5 \in gens[1].used_gids /\ 5 \notin gens[2].used_gids

----------------------------------------------------------------------------
(* C27: a second get_pdf_bytes call right after the first returns a        *)
(* document with exactly one page more, the pages of the first unchanged   *)
(* and the extra page holding the last page's content and a second ET.     *)
C27_SecondCallAddsPage ==
    [][\A b \in DOMAIN gens :
          (/\ Returned(b) /\ gens[b].font_loaded
           /\ gens'[b].ngets = 2) =>
              LET first == Chunks(gens[b].buffer, "Contents")
                  second == Chunks(gens'[b].buffer, "Contents")
                  P == Len(first)
              IN /\ gens'[b].err = ""
                 /\ Len(Chunks(gens[b].buffer, "Page")) = P
                 /\ Len(Chunks(gens'[b].buffer, "Page")) = P + 1
                 /\ ObjBody(gens'[b].buffer, pages_root_id).n = P + 1
                 /\ Len(second) = P + 1
                 /\ \A i \in 1..P : second[i].data = first[i].data
                 /\ second[P + 1].data = Append(first[P].data, ET)
                 /\ second[P + 1].len = first[P].len + 3]_vars

\* The second call returned three pages for a text of two: the third ends
\* with two ET and repeats the lines of the second
C27_Witness ==
    \E b \in DOMAIN gens :
        /\ gens[b].ngets = 2 /\ gens[b].err = "" /\ gens[b].font_loaded
        /\ LET pages == Chunks(gens[b].buffer, "Contents")
               last == pages[3].data
           IN /\ Len(pages) = 3
              /\ last[Len(last)].op = "ET"
              /\ last[Len(last) - 1].op = "ET"
              /\ ShowPlaces(last) # <<>>
              /\ SubSeq(last, 1, Len(last) - 1) = pages[2].data

----------------------------------------------------------------------------
(* C28: on every successfully constructed font, whatever units_per_em its  *)
(* head table carries, add_text completes without raising for every text.  *)
C28_AddTextNeverRaises ==
    \A b \in DOMAIN gens :
        (/\ gens[b].st = "ready" /\ gens[b].font_loaded
         /\ gens[b].ngets = 0
         /\ log[b] # <<>>
         /\ log[b][Len(log[b])].op = "add_text") =>
            gens[b].err = ""

----------------------------------------------------------------------------
----------------------------------------------------------------------------
(* C30: after any sequence of set_font_size and add_text calls and a       *)
(* single get_pdf_bytes call, every page content stream of the output      *)
(* begins with a BT, ends with an ET, holds no other BT or ET and has all  *)
(* its text instructions between them; a page once sealed is never changed *)
(* by a later operation.                                                   *)
C30_StreamsBracketed ==
    /\ [] (\A b \in DOMAIN gens :
              Returned(b) /\ gens[b].font_loaded =>
                  LET streams == Chunks(gens[b].buffer, "Contents")
                  IN /\ Len(streams) = Len(gens[b].pages_content)
                     /\ \A p \in 1..Len(streams) :
                           LET c == streams[p].data
                           IN /\ c = gens[b].pages_content[p]
                              /\ Len(c) >= 2
                              /\ c[1].op = "BT"
                              /\ c[Len(c)].op = "ET"
                              /\ \A k \in 2..(Len(c) - 1) : c[k].op \in {"Tf", "Tj"})
    /\ [][\A b \in DOMAIN gens :
              gens[b].st = "ready" =>
                  /\ Len(gens'[b].pages_content) >= Len(gens[b].pages_content)
                  /\ SubSeq(gens'[b].pages_content, 1, Len(gens[b].pages_content))
                        = gens[b].pages_content]_vars

\* A returned document of two pages, both with lines, the first also with
\* the font selection of set_font_size
C30_Witness ==
    \E b \in DOMAIN gens :
        /\ Returned(b) /\ gens[b].font_loaded
        /\ LET streams == Chunks(gens[b].buffer, "Contents")
           IN /\ Len(streams) = 2
              /\ ShowPlaces(streams[1].data) # <<>>
              /\ ShowPlaces(streams[2].data) # <<>>
              /\ \E k \in 2..(Len(streams[1].data) - 1) :
                     streams[1].data[k].op = "Tf"

====
